---- MODULE Spec2Model ----
(***************************************************************************)
(* Model of the BTO recommendation core (services/recommendation.py):      *)
(* the cached loader load_resale_data, the gap analysis analyze_bto_gaps,  *)
(* the price estimator _calculate_single_pricing and the ranking function  *)
(* recommend_estates.                                                      *)
(*                                                                         *)
(* Encodings.  A pandas DataFrame is a sequence of row runs: a run is one  *)
(* row together with a multiplicity n (n identical consecutive rows).      *)
(* Python's None is the empty tuple and a present value v is <<v>>.        *)
(* A 'month' cell "YYYY-MM" is the integer YYYY*100+MM.  A median is kept *)
(* doubled (median2) so that the mean of two middle values stays integral. *)
(* Numeric cells are whole numbers; the int64/float64 distinction of a     *)
(* column (which only changes how a number prints, 8 or 8.0) is not kept.  *)
(***************************************************************************)
EXTENDS Integers, Sequences, FiniteSets, TLC

VARIABLES now, ticks, source, data_cache, cache_timestamp, lru, ret, model_loaded,
          executor, call, threads, loads

vars == <<now, ticks, source, data_cache, cache_timestamp, lru, ret, model_loaded,
          executor, call, threads, loads>>

\* the state of the HTTP layer, which no call of the service touches
http_state == <<model_loaded>>

\* the worker pool of the service and the pricing call in progress
pricing_state == <<executor, call>>

\* the callers inside load_resale_data and the count of reads of the extract
thread_state == <<threads, loads>>

(***************************************************************************)
(* Program constants                                                       *)
(***************************************************************************)
BTO_DISCOUNT_RATE_PCT == 20
CURRENT_YEAR == 2025
MIN_YEARS_SINCE_LAUNCH == 5
cache_duration == 3600
SECONDS_PER_DAY == 86400
RECENT_YEAR == 2022
RELIABLE_MINIMUM == 10
ACTIVITY_FLOOR == 100
TOP_K == 8
FINAL_CAP == 6
AFFORDABLE_LIMIT == 400000
ACTIVE_MARKET == 50
LONG_GAP == 8
max_workers == 4
RESULT_TIMEOUT == 5

required_columns ==
    {"month", "town", "flat_type", "resale_price", "lease_commence_date", "floor_area_sqm"}

\* cell encodings: a missing (NaN) cell and a non-numeric text cell
NaN == -999999
TEXT == -888888

\* a price cell "inf", which read_csv parses as the float infinity; it is
\* above every finite price, and so is every median it takes part in
INF == 9999999

None == <<>>
Some(v) == <<v>>

\* the two service objects of a process: the module-level bto_service and an
\* instance built by a caller (the test fixture)
Services == {"bto_service", "service"}

(***************************************************************************)
(* Bounds                                                                  *)
(***************************************************************************)
\* number of clock advances in a behaviour
MaxTicks == 2
\* number of identical filler towns a generated extract may hold
MaxFill == 7
\* calls of calculate_pricing_async in one behaviour
MaxBatches == 1
\* time units for which a computation that does not end is watched
MaxElapsed == 7
\* calls of load_resale_data one caller makes
MaxCalls == 2
\* the largest gap, in years either way, the demand score is computed for
MaxGap == 12

(***************************************************************************)
(* Generic helpers                                                         *)
(***************************************************************************)
RECURSIVE SumSeq(_)
SumSeq(s) == IF s = <<>> THEN 0 ELSE Head(s) + SumSeq(Tail(s))

Prefix(s, k) == SubSeq(s, 1, IF Len(s) < k THEN Len(s) ELSE k)

\* len(df): number of rows of a table given as runs
NRows(rows) == SumSeq([i \in 1..Len(rows) |-> rows[i].n])

(***************************************************************************)
(* load_resale_data                                                        *)
(***************************************************************************)
\* pd.to_datetime(month, errors='coerce'): a valid YYYY-MM parses, anything
\* else becomes NaT (NaN here)
to_datetime(month) ==
    IF month # NaN /\ month # TEXT /\ month \div 100 >= 1 /\ month \div 100 <= 9999
       /\ month % 100 >= 1 /\ month % 100 <= 12
    THEN month ELSE NaN

\* .dt.year of a parsed date
dt_year(date) == IF date = NaN THEN NaN ELSE date \div 100

\* pd.read_csv dtype inference: a numeric column holding one text cell is read
\* as an object column, all of whose non-empty cells are strings
ColumnCell(rows, col, i) ==
    IF rows[i][col] # NaN /\ \E j \in 1..Len(rows) : rows[j][col] = TEXT
    THEN TEXT ELSE rows[i][col]

read_csv(src) ==
    [i \in 1..Len(src.rows) |->
        [n |-> src.rows[i].n,
         month |-> src.rows[i].month,
         town |-> src.rows[i].town,
         flat_type |-> src.rows[i].flat_type,
         resale_price |-> ColumnCell(src.rows, "resale_price", i),
         lease_commence_date |-> ColumnCell(src.rows, "lease_commence_date", i),
         floor_area_sqm |-> ColumnCell(src.rows, "floor_area_sqm", i)]]

\* lines 46-47: the two derived columns
AddTransactionYear(rows) ==
    [i \in 1..Len(rows) |->
        [n |-> rows[i].n,
         month |-> rows[i].month,
         town |-> rows[i].town,
         flat_type |-> rows[i].flat_type,
         resale_price |-> rows[i].resale_price,
         lease_commence_date |-> rows[i].lease_commence_date,
         floor_area_sqm |-> rows[i].floor_area_sqm,
         transaction_date |-> to_datetime(rows[i].month),
         transaction_year |-> dt_year(to_datetime(rows[i].month))]]

\* line 50: df.dropna(subset=['transaction_date','resale_price','lease_commence_date'])
DropNaKeep(r) ==
    r.transaction_date # NaN /\ r.resale_price # NaN /\ r.lease_commence_date # NaN

dropna(rows) == SelectSeq(rows, DropNaKeep)

\* variant: a price of zero is kept
PositivePrice_nonnegative(r) == r.resale_price >= 0

\* line 51: df[df['resale_price'] > 0]
PositivePrice(r) == r.resale_price > 0

\* (datetime.now() - ts).seconds: the seconds field of a normalised timedelta
TimedeltaSeconds(delta) == delta % SECONDS_PER_DAY

\* variant: the age comparison turned around
CacheValid_inverted(cache, stamp, t) ==
    /\ cache # None
    /\ stamp # None
    /\ TimedeltaSeconds(t - stamp[1]) > cache_duration

\* lines 32-34: the cache validity test
CacheValid(cache, stamp, t) ==
    /\ cache # None
    /\ stamp # None
    /\ TimedeltaSeconds(t - stamp[1]) < cache_duration

\* lines 37-58: the outcome of the load proper; exc names the exception raised
LoadFromSource(src, t) ==
    IF ~src.exists
    THEN [exc |-> "FileNotFoundError", df |-> None]
    ELSE IF required_columns \ src.columns # {}
    THEN [exc |-> "ValueError", df |-> None]
    ELSE LET kept == dropna(AddTransactionYear(read_csv(src)))
         IN  IF \E i \in 1..Len(kept) : kept[i].resale_price = TEXT
             THEN [exc |-> "TypeError", df |-> None]
             ELSE [exc |-> "none", df |-> Some(SelectSeq(kept, PositivePrice))]

\* variant: except ValueError
HandlerCatches_value_error(exc) == exc = "ValueError"

\* line 60: except Exception
HandlerCatches(exc) == exc \in {"FileNotFoundError", "ValueError", "TypeError"}

\* variant: the handler of line 60 also drops the cached table
load_body_clearing(src, cache, stamp, t) ==
    IF CacheValid(cache, stamp, t)
    THEN [value |-> cache, cache |-> cache, stamp |-> stamp,
          read |-> FALSE, raised |-> "none"]
    ELSE LET l == LoadFromSource(src, t)
         IN  IF l.exc = "none"
             THEN [value |-> l.df, cache |-> l.df, stamp |-> Some(t),
                   read |-> TRUE, raised |-> "none"]
             ELSE [value |-> None, cache |-> None, stamp |-> None,
                   read |-> TRUE, raised |-> "none"]

\* lines 28-62: the undecorated body of BTORecommendationService.load_resale_data
\* run with the object's fields cache/stamp at time t
load_body(src, cache, stamp, t) ==
    IF CacheValid(cache, stamp, t)
    THEN [value |-> cache, cache |-> cache, stamp |-> stamp,
          read |-> FALSE, raised |-> "none"]
    ELSE LET l == LoadFromSource(src, t)
         IN  IF l.exc = "none"
             THEN [value |-> l.df, cache |-> l.df, stamp |-> Some(t),
                   read |-> TRUE, raised |-> "none"]
             ELSE IF HandlerCatches(l.exc)
             THEN [value |-> None, cache |-> cache, stamp |-> stamp,
                   read |-> TRUE, raised |-> "none"]
             ELSE [value |-> None, cache |-> cache, stamp |-> stamp,
                   read |-> TRUE, raised |-> l.exc]

\* line 27: @lru_cache(maxsize=1) keyed on self.  A hit returns the remembered
\* value without running the body; a miss runs it and remembers a normal return.
LruHit(memo, s) == memo # None /\ memo[1].key = s

\* variant: neither the memo nor the object's cache is consulted
load_resale_data_uncached(s, src, caches, stamps, memo, t) ==
    LET b == load_body(src, None, None, t)
    IN  [value |-> b.value,
         caches |-> [caches EXCEPT ![s] = IF b.value # None THEN b.cache ELSE caches[s]],
         stamps |-> [stamps EXCEPT ![s] = IF b.value # None THEN b.stamp ELSE stamps[s]],
         lru |-> memo, read |-> b.read, raised |-> b.raised, hit |-> FALSE]

load_resale_data(s, src, caches, stamps, memo, t) ==
    IF LruHit(memo, s)
    THEN [value |-> memo[1].value, caches |-> caches, stamps |-> stamps,
          lru |-> memo, read |-> FALSE, raised |-> "none", hit |-> TRUE]
    ELSE LET b == load_body(src, caches[s], stamps[s], t)
         IN  [value |-> b.value,
              caches |-> [caches EXCEPT ![s] = b.cache],
              stamps |-> [stamps EXCEPT ![s] = b.stamp],
              lru |-> IF b.raised = "none"
                      THEN Some([key |-> s, value |-> b.value]) ELSE memo,
              read |-> b.read, raised |-> b.raised, hit |-> FALSE]

(***************************************************************************)
(* analyze_bto_gaps                                                        *)
(***************************************************************************)
\* the town names, in the (lexicographic) order in which groupby('town')
\* iterates over its groups
TownOrder == <<"ANG MO KIO", "BEDOK", "BISHAN", "BUKIT BATOK", "CLEMENTI", "HOUGANG",
               "JURONG WEST", "PASIR RIS", "PUNGGOL", "SENGKANG", "TAMPINES",
               "WOODLANDS", "YISHUN", "yishun">>

TownIndex(town) == CHOOSE i \in 1..Len(TownOrder) : TownOrder[i] = town

TownPresent(rows, town) == \E i \in 1..Len(rows) : rows[i].town = town

\* the group keys of df.groupby('town'), sorted
GroupKeys(rows) ==
    LET Present(town) == TownPresent(rows, town)
    IN  SelectSeq(TownOrder, Present)

TownRows(rows, town) ==
    LET InTown(r) == r.town = town
    IN  SelectSeq(rows, InTown)

MaxOf(S) == CHOOSE x \in S : \A y \in S : y <= x

\* 'count': the non-null cells of transaction_year in the group
CountYears(g) ==
    SumSeq([i \in 1..Len(g) |-> IF g[i].transaction_year # NaN THEN g[i].n ELSE 0])

\* lambda x: sum(x >= 2022)
CountRecent(g) ==
    SumSeq([i \in 1..Len(g) |->
              IF g[i].transaction_year # NaN /\ g[i].transaction_year >= RECENT_YEAR
              THEN g[i].n ELSE 0])

\* 'mean' followed by round(2), kept in hundredths (round half to even)
MeanX100(g) ==
    LET total == SumSeq([i \in 1..Len(g) |-> g[i].n * g[i].resale_price])
        cnt == NRows(g)
        q == 100 * (total \div cnt) + (100 * (total % cnt)) \div cnt
        r == (100 * (total % cnt)) % cnt
    IN  IF 2 * r > cnt THEN q + 1
        ELSE IF 2 * r = cnt THEN q + (q % 2)
        ELSE q

\* lines 70-80: one row of town_stats
TownStats(rows, town) ==
    LET g == TownRows(rows, town)
        max_lease == MaxOf({g[i].lease_commence_date : i \in 1..Len(g)})
    IN  [town |-> town,
         max_lease_year |-> max_lease,
         total_transactions |-> CountYears(g),
         recent_transactions |-> CountRecent(g),
         avg_price |-> IF \E i \in 1..Len(g) : g[i].resale_price = INF
                       THEN INF ELSE MeanX100(g),
         years_since_last_major_launch |-> CURRENT_YEAR - max_lease]

\* variant: the activity floor compared with >=
Qualifies_inclusive(st) ==
    /\ st.total_transactions >= ACTIVITY_FLOOR
    /\ st.years_since_last_major_launch >= MIN_YEARS_SINCE_LAUNCH

\* lines 84-85: the filter
Qualifies(st) ==
    /\ st.total_transactions > ACTIVITY_FLOOR
    /\ st.years_since_last_major_launch >= MIN_YEARS_SINCE_LAUNCH

\* line 86: sort_values([...], ascending=[False, False]); the key of the sort
GapKeyGreater(a, b) ==
    \/ a.years_since_last_major_launch > b.years_since_last_major_launch
    \/ /\ a.years_since_last_major_launch = b.years_since_last_major_launch
       /\ a.recent_transactions > b.recent_transactions

\* a stable descending sort; greater[i][j] says that the key of s[i] is
\* greater than the key of s[j].  Element i goes behind every element with a
\* greater key and every earlier element with an equal key.
StableSortDesc(s, greater) ==
    LET Rank(i) == Cardinality({j \in 1..Len(s) :
                        \/ greater[j][i]
                        \/ ~greater[i][j] /\ j < i})
    IN  [k \in 1..Len(s) |-> s[CHOOSE i \in 1..Len(s) : Rank(i) = k - 1]]

\* variant: sorted on the first key only
sort_values_first_key(s) ==
    StableSortDesc(s, [i \in 1..Len(s) |-> [j \in 1..Len(s) |->
        s[i].years_since_last_major_launch > s[j].years_since_last_major_launch]])

sort_values(s) ==
    StableSortDesc(s, [i \in 1..Len(s) |-> [j \in 1..Len(s) |->
                            GapKeyGreater(s[i], s[j])]])

\* line 88: head(8)
head(s) == Prefix(s, TOP_K)

\* lines 64-88.  raised names the exception that leaves the function: the
\* subtraction of line 77 fails on a lease column that was read as text.
analyze_bto_gaps(df) ==
    IF df = None \/ df[1] = <<>>
    THEN [raised |-> "none", list |-> <<>>]
    ELSE IF \E i \in 1..Len(df[1]) : df[1][i].lease_commence_date = TEXT
    THEN [raised |-> "TypeError", list |-> <<>>]
    ELSE LET keys == GroupKeys(df[1])
             town_stats == [k \in 1..Len(keys) |-> TownStats(df[1], keys[k])]
         IN  [raised |-> "none",
              list |-> head(sort_values(SelectSeq(town_stats, Qualifies)))]

(***************************************************************************)
(* _calculate_single_pricing                                               *)
(***************************************************************************)
\* the k-th smallest resale_price of the rows in g (k from 1)
KthPrice(g, k) ==
    LET prices == {g[i].resale_price : i \in 1..Len(g)}
        AtMost(p) == SumSeq([i \in 1..Len(g) |->
                                IF g[i].resale_price <= p THEN g[i].n ELSE 0])
    IN  CHOOSE p \in prices :
            /\ AtMost(p) >= k
            /\ \A q \in prices : q < p => AtMost(q) < k

\* twice Series.median(): the middle value, or the mean of the two middle ones
median2(g) ==
    LET cnt == NRows(g)
    IN  IF cnt % 2 = 1 THEN 2 * KthPrice(g, (cnt + 1) \div 2)
        ELSE KthPrice(g, cnt \div 2) + KthPrice(g, cnt \div 2 + 1)

\* lines 113-117
RecentData(rows, town, flat_type) ==
    LET Match(r) == /\ r.town = town
                    /\ r.flat_type = flat_type
                    /\ r.transaction_year >= RECENT_YEAR
    IN  SelectSeq(rows, Match)

\* line 123
AllData(rows, town, flat_type) ==
    LET Match(r) == r.town = town /\ r.flat_type = flat_type
    IN  SelectSeq(rows, Match)

\* variant: the reliable minimum compared with >
_calculate_single_pricing_strict(rows, town, flat_type) ==
    IF NRows(RecentData(rows, town, flat_type)) > RELIABLE_MINIMUM
    THEN Some(median2(RecentData(rows, town, flat_type)))
    ELSE IF NRows(AllData(rows, town, flat_type)) > 0
    THEN Some(median2(AllData(rows, town, flat_type)))
    ELSE None

\* lines 110-127; the result is None or Some(twice the median)
_calculate_single_pricing(rows, town, flat_type) ==
    IF NRows(RecentData(rows, town, flat_type)) >= RELIABLE_MINIMUM
    THEN Some(median2(RecentData(rows, town, flat_type)))
    ELSE IF NRows(AllData(rows, town, flat_type)) > 0
    THEN Some(median2(AllData(rows, town, flat_type)))
    ELSE None

(***************************************************************************)
(* get_town_characteristics                                                *)
(***************************************************************************)
FlatTypeOrder == <<"3 ROOM", "4 ROOM", "5 ROOM", "EXECUTIVE">>

FlatTypeRows(g, flat_type) ==
    LET Match(r) == r.flat_type = flat_type
    IN  SelectSeq(g, Match)

FirstIndex(g, flat_type) == CHOOSE i \in 1..Len(g) :
    /\ g[i].flat_type = flat_type
    /\ \A j \in 1..(i - 1) : g[j].flat_type # flat_type

\* line 155: value_counts(normalize=True): one item per flat type of the
\* town, most frequent first, equal counts in order of first appearance; the
\* fraction is num / den
value_counts(g) ==
    LET Present(ft) == \E i \in 1..Len(g) : g[i].flat_type = ft
        types == SelectSeq(FlatTypeOrder, Present)
        seen == StableSortDesc(types, [i \in 1..Len(types) |-> [j \in 1..Len(types) |->
                    FirstIndex(g, types[i]) < FirstIndex(g, types[j])]])
        items == [k \in 1..Len(seen) |->
                    [flat_type |-> seen[k],
                     num |-> NRows(FlatTypeRows(g, seen[k])),
                     den |-> NRows(g)]]
    IN  StableSortDesc(items, [i \in 1..Len(items) |-> [j \in 1..Len(items) |->
                                  items[i].num > items[j].num]])

\* lines 144-164; empty is the {} result.  The per-type median of line 156
\* raises on a floor_area_sqm column that was read as text.
get_town_characteristics(df, town) ==
    IF df = None \/ TownRows(df[1], town) = <<>>
    THEN [raised |-> "none", empty |-> TRUE, flat_type_mix |-> <<>>,
          total_transactions |-> 0]
    ELSE IF \E i \in 1..Len(TownRows(df[1], town)) :
                TownRows(df[1], town)[i].floor_area_sqm = TEXT
    THEN [raised |-> "TypeError", empty |-> TRUE, flat_type_mix |-> <<>>,
          total_transactions |-> 0]
    ELSE [raised |-> "none", empty |-> FALSE,
          flat_type_mix |-> value_counts(TownRows(df[1], town)),
          total_transactions |-> NRows(TownRows(df[1], town))]

(***************************************************************************)
(* recommend_estates                                                       *)
(***************************************************************************)
flat_types == <<"3 ROOM", "4 ROOM", "5 ROOM">>

\* flat_type.lower().replace(' ', '_')
PricingKey(flat_type) ==
    CASE flat_type = "3 ROOM" -> "3_room"
      [] flat_type = "4 ROOM" -> "4_room"
      [] flat_type = "5 ROOM" -> "5_room"
      [] flat_type = "EXECUTIVE" -> "executive"
      [] flat_type = "2 ROOM" -> "2_room"

\* Python round(a / b) for b > 0: to nearest, halves to even
RoundDiv(a, b) ==
    LET q == a \div b
        r == a % b
    IN  IF 2 * r > b THEN q + 1
        ELSE IF 2 * r = b THEN q + (q % 2)
        ELSE q

\* lines 198-199: round(resale_price * (1 - BTO_DISCOUNT_RATE)), from twice the price
BtoPrice(price2) == RoundDiv(price2 * (100 - BTO_DISCOUNT_RATE_PCT), 200)

\* line 197: if resale_price
Truthy(price) == price # None /\ price[1] # 0

\* line 199: round() of an infinite float raises OverflowError
RoundRaises(price2) == price2 >= INF

\* a pricing dict that puts 0 where no estimate was returned
PricingOf_with_default(rows, town) ==
    [key \in {PricingKey(flat_types[i]) : i \in 1..Len(flat_types)} |->
        LET ft == CHOOSE f \in {flat_types[i] : i \in 1..Len(flat_types)} :
                      PricingKey(f) = key
            price == _calculate_single_pricing(rows, town, ft)
        IN  IF Truthy(price) THEN BtoPrice(price[1]) ELSE 0]

\* lines 192-199: the pricing dict of one town
PricingOf(rows, town) ==
    LET Priced(ft) == Truthy(_calculate_single_pricing(rows, town, ft))
        priced == SelectSeq(flat_types, Priced)
    IN  [key \in {PricingKey(priced[i]) : i \in 1..Len(priced)} |->
            BtoPrice(_calculate_single_pricing(rows, town,
                CHOOSE ft \in {priced[i] : i \in 1..Len(priced)} :
                    PricingKey(ft) = key)[1])]

\* pricing.get(key, default)
DictGet(d, key, default) == IF key \in DOMAIN d THEN d[key] ELSE default

\* variant: a score that falls as the gap grows
DemandScore_decreasing(years_gap) ==
    IF years_gap > 0
    THEN (IF years_gap * 10 < 100 THEN 100 - years_gap * 10 ELSE 0)
    ELSE 50

\* line 209, in hundredths (after round(demand_score, 2))
DemandScore(years_gap) ==
    IF years_gap > 0
    THEN (IF years_gap * 10 < 100 THEN years_gap * 10 ELSE 100)
    ELSE 50

\* "; ".join(parts)
RECURSIVE Join(_)
Join(parts) ==
    IF Len(parts) = 1 THEN parts[1]
    ELSE parts[1] \o "; " \o Join(Tail(parts))

\* line 216: the trigger of the third clause
AffordableTrigger(pricing) == DictGet(pricing, "4_room", 0) < AFFORDABLE_LIMIT

\* lines 211-219
Rationale(years_gap, recent_activity, pricing) ==
    LET rationale_parts ==
            (IF years_gap >= LONG_GAP
             THEN <<"No major launches for " \o ToString(years_gap) \o " years">>
             ELSE <<>>)
            \o (IF recent_activity > ACTIVE_MARKET
                THEN <<"Active resale market (" \o ToString(recent_activity)
                       \o " recent transactions)">>
                ELSE <<>>)
            \o (IF AffordableTrigger(pricing)
                THEN <<"Affordable pricing segment">>
                ELSE <<>>)
    IN  IF rationale_parts # <<>> THEN Join(rationale_parts)
        ELSE "Moderate BTO opportunity"

\* lines 188-238: the body of the loop for one candidate; raised names the
\* exception caught by the handler of line 236
ProcessCandidate(df, town_info) ==
    LET town == town_info.town
        pricing == PricingOf(df[1], town)
        characteristics == get_town_characteristics(df, town)
        years_gap == town_info.years_since_last_major_launch
        recent_activity == town_info.recent_transactions
    IN  IF \E k \in 1..Len(flat_types) :
              LET price == _calculate_single_pricing(df[1], town, flat_types[k])
              IN  Truthy(price) /\ RoundRaises(price[1])
        THEN [raised |-> "OverflowError", recommendation |-> <<>>]
        ELSE IF characteristics.raised # "none"
        THEN [raised |-> characteristics.raised, recommendation |-> <<>>]
        ELSE [raised |-> "none",
              recommendation |-> <<
                [town |-> town,
                 years_since_last_major_launch |-> years_gap,
                 demand_score |-> DemandScore(years_gap),
                 recent_market_activity |-> recent_activity,
                 predicted_pricing |-> pricing,
                 rationale |-> Rationale(years_gap, recent_activity, pricing),
                 market_characteristics |->
                    [total_transactions |-> characteristics.total_transactions,
                     predominant_flat_types |->
                        [k \in 1..Len(Prefix(characteristics.flat_type_mix, 3)) |->
                            characteristics.flat_type_mix[k].flat_type]]] >>]

RECURSIVE Flatten(_)
Flatten(ss) == IF ss = <<>> THEN <<>> ELSE Head(ss) \o Flatten(Tail(ss))

\* line 187: town_analysis[:6]
LoopSlice(town_analysis) == Prefix(town_analysis, 6)

\* variant: the loop body has no handler of its own
LoopHandlerCatches_nothing(exc) == FALSE

\* line 236: except Exception, inside the loop
LoopHandlerCatches(exc) == exc \in {"OverflowError", "TypeError", "ValueError", "KeyError"}

\* an exception of the loop body that the handler of line 236 lets through
LoopEscapes(df, town_analysis) ==
    \E i \in 1..Len(LoopSlice(town_analysis)) :
        /\ ProcessCandidate(df, LoopSlice(town_analysis)[i]).raised # "none"
        /\ ~LoopHandlerCatches(ProcessCandidate(df, LoopSlice(town_analysis)[i]).raised)

\* lines 184-238: the recommendations list after the loop
Recommendations(df, town_analysis) ==
    Flatten([i \in 1..Len(LoopSlice(town_analysis)) |->
                ProcessCandidate(df, LoopSlice(town_analysis)[i]).recommendation])

\* line 241: sort(key=(demand_score, years_since_last_major_launch), reverse=True)
RankKeyGreater(a, b) ==
    \/ a.demand_score > b.demand_score
    \/ /\ a.demand_score = b.demand_score
       /\ a.years_since_last_major_launch > b.years_since_last_major_launch

\* variant: sorted ascending and then reversed, which turns ties around
list_sort_reversing_ties(s) ==
    LET Rank(i) == Cardinality({j \in 1..Len(s) :
                        \/ RankKeyGreater(s[j], s[i])
                        \/ /\ ~RankKeyGreater(s[i], s[j])
                           /\ ~RankKeyGreater(s[j], s[i])
                           /\ j > i})
    IN  [k \in 1..Len(s) |-> s[CHOOSE i \in 1..Len(s) : Rank(i) = k - 1]]

list_sort(s) ==
    StableSortDesc(s, [i \in 1..Len(s) |-> [j \in 1..Len(s) |->
                            RankKeyGreater(s[i], s[j])]])

\* lines 173-180
UnavailableFallback ==
    << [town |-> "WOODLANDS",
        years_since_last_major_launch |-> 8,
        predicted_4room_bto_price |-> 350000,
        rationale |-> "Data unavailable - using fallback estimate"] >>

\* lines 248-265 (demand_score in hundredths)
ErrorFallback ==
    << [town |-> "WOODLANDS",
        years_since_last_major_launch |-> 8,
        demand_score |-> 80,
        recent_market_activity |-> 150,
        predicted_pricing |-> [key \in {"3_room", "4_room", "5_room"} |->
                                 CASE key = "3_room" -> 280000
                                   [] key = "4_room" -> 350000
                                   [] key = "5_room" -> 420000],
        rationale |-> "Fallback recommendation - system error occurred",
        market_characteristics |->
            [total_transactions |-> 1000,
             predominant_flat_types |-> <<"4 ROOM", "5 ROOM", "3 ROOM">>]] >>

\* lines 166-265 after the call of load_resale_data returned df; branch names
\* the return statement taken
recommend_estates(df) ==
    IF df = None
    THEN [branch |-> "unavailable", value |-> UnavailableFallback]
    ELSE LET town_analysis == analyze_bto_gaps(df)
         IN  IF town_analysis.raised # "none"
             THEN [branch |-> "error", value |-> ErrorFallback]
             ELSE IF LoopEscapes(df, town_analysis.list)
             THEN [branch |-> "error", value |-> ErrorFallback]
             ELSE [branch |-> "ranked",
                   value |-> Prefix(list_sort(Recommendations(df, town_analysis.list)),
                                    FINAL_CAP)]

(***************************************************************************)
(* The worker pool and calculate_pricing_async                             *)
(***************************************************************************)
\* the time a computation takes: a duration in time units, or Hang for a
\* computation that does not end
Hang == -1
Durations == {1, 6, Hang}

\* line 95: what the submitted task _calculate_single_pricing(df, town,
\* flat_type) ends with; subscripting a None table raises TypeError
TaskResult(df, town, flat_type) ==
    IF df = None
    THEN [raised |-> "TypeError", value |-> None]
    ELSE [raised |-> "none", value |-> _calculate_single_pricing(df[1], town, flat_type)]

\* ThreadPoolExecutor(max_workers=4): the tasks not yet finished, in the
\* order of submission; the first max_workers of them are on a worker
Running(ex, i) == i <= max_workers

\* one time unit of work on every task that is on a worker
TickedTasks(ex) ==
    [i \in 1..Len(ex.tasks) |->
        IF Running(ex, i) /\ ex.tasks[i].left # Hang
        THEN [ex.tasks[i] EXCEPT !.left = @ - 1]
        ELSE ex.tasks[i]]

FinishedIds(ex) ==
    {TickedTasks(ex)[i].id : i \in {j \in 1..Len(ex.tasks) : TickedTasks(ex)[j].left = 0}}

\* the pool one time unit later: finished tasks leave, queued tasks move up
ExecutorTick(ex) ==
    LET Unfinished(task) == task.left # 0
    IN  [ex EXCEPT !.tasks = SelectSeq(TickedTasks(ex), Unfinished)]

\* the futures of a call after the tasks with these ids have finished
FuturesAfter(futures, ids) ==
    [i \in 1..Len(futures) |->
        IF futures[i].id \in ids THEN [futures[i] EXCEPT !.done = TRUE] ELSE futures[i]]

\* pricing[key] = value
DictSet(d, key, value) ==
    [k \in DOMAIN d \cup {key} |-> IF k = key THEN value ELSE d[k]]

EmptyDict == [k \in {} |-> 0]

\* lines 100-106 for a future that is done: task.result() returns or re-raises
CollectResult(c) ==
    LET f == c.futures[c.idx]
        key == PricingKey(f.flat_type)
    IN  IF f.result.raised # "none"
           \/ (Truthy(f.result.value) /\ RoundRaises(f.result.value[1]))
        THEN [c EXCEPT !.warned = @ \cup {f.flat_type},
                       !.futures[c.idx].collected = "raised",
                       !.idx = @ + 1, !.waited = 0]
        ELSE IF Truthy(f.result.value)
        THEN [c EXCEPT !.pricing = DictSet(@, key, BtoPrice(f.result.value[1])),
                       !.futures[c.idx].collected = "price",
                       !.idx = @ + 1, !.waited = 0]
        ELSE [c EXCEPT !.futures[c.idx].collected = "none",
                       !.idx = @ + 1, !.waited = 0]

\* lines 101 and 105-106: task.result(timeout=5) raises TimeoutError
CollectTimeout(c) ==
    [c EXCEPT !.warned = @ \cup {c.futures[c.idx].flat_type},
              !.futures[c.idx].collected = "timeout",
              !.idx = @ + 1, !.waited = 0]

(***************************************************************************)
(* get_town_market_analysis and its endpoint                               *)
(***************************************************************************)
\* str.upper() and str.strip() on the names that occur as zone names in the
\* extracts or as the town_name of a request
upper(name) ==
    CASE name \in {"woodlands", "Woodlands"} -> "WOODLANDS"
      [] name = "woodlands " -> "WOODLANDS "
      [] name \in {"yishun", "Yishun"} -> "YISHUN"
      [] name = "punggol" -> "PUNGGOL"
      [] OTHER -> name

strip(name) ==
    CASE name = "WOODLANDS " -> "WOODLANDS"
      [] name = "woodlands " -> "woodlands"
      [] name = " Analysis by gpt-4o. " -> "Analysis by gpt-4o."
      [] name = "Analysis by sonar-pro.\n" -> "Analysis by sonar-pro."
      [] OTHER -> name

\* variant: the names are compared as they are spelled
MatchesTown_exact(r, town_name) == r.town = town_name

\* line 274: df['town'].str.upper() == town_name.upper()
MatchesTown(r, town_name) == upper(r.town) = upper(town_name)

MinOf(S) == CHOOSE m \in S : \A x \in S : m <= x

\* the rows of g with the column floor_area_sqm where the median is taken
AreaAsPrice(g) ==
    [i \in 1..Len(g) |-> [g[i] EXCEPT !.resale_price = g[i].floor_area_sqm]]

\* lines 280-295: the analysis dict of the matching rows
TownReport(town_data, town_name) ==
    LET Recent(r) == r.transaction_year >= 2023
        recent == SelectSeq(town_data, Recent)
        Present(ft) == FlatTypeRows(town_data, ft) # <<>>
        types == {ft \in {FlatTypeOrder[i] : i \in 1..Len(FlatTypeOrder)} : Present(ft)}
        months == {town_data[i].month : i \in 1..Len(town_data)}
        leases == {town_data[i].lease_commence_date : i \in 1..Len(town_data)}
    IN  [town |-> town_name,
         data_period |-> <<MinOf(months), MaxOf(months)>>,
         total_transactions |-> NRows(town_data),
         flat_types |-> [ft \in types |-> NRows(FlatTypeRows(town_data, ft))],
         price_trends |->
            [overall_median |-> median2(town_data) \div 2,
             recent_median |-> IF NRows(recent) > 0
                               THEN Some(median2(recent) \div 2) ELSE None],
         size_distribution |->
            [ft \in types |-> median2(AreaAsPrice(FlatTypeRows(town_data, ft)))],
         lease_vintage |-> [oldest |-> MinOf(leases), newest |-> MaxOf(leases)]]

\* lines 271-297 after load_resale_data returned df.  The median of line 290
\* raises TypeError on a floor_area_sqm column read as text, int() of line 292
\* raises ValueError on a text cell (the numeric strings of a text column are
\* not told apart from its other cells, so every zone of such a table takes
\* that branch here), int() of line 286 raises OverflowError on an infinite
\* median.
get_town_market_analysis(df, town_name) ==
    IF df = None
    THEN [raised |-> "none", value |-> [error |-> "Data not available"]]
    ELSE LET Match(r) == MatchesTown(r, town_name)
             town_data == SelectSeq(df[1], Match)
         IN  IF NRows(town_data) = 0
             THEN [raised |-> "none",
                   value |-> [error |-> "No data found for " \o town_name]]
             ELSE IF \E i \in 1..Len(town_data) : town_data[i].floor_area_sqm = TEXT
             THEN [raised |-> "TypeError", value |-> None]
             ELSE IF \E i \in 1..Len(town_data) : town_data[i].lease_commence_date = TEXT
             THEN [raised |-> "ValueError", value |-> None]
             ELSE IF \/ median2(town_data) >= INF
                     \/ \E i \in 1..Len(town_data) :
                           /\ town_data[i].transaction_year >= 2023
                           /\ town_data[i].resale_price = INF
             THEN [raised |-> "OverflowError", value |-> None]
             ELSE [raised |-> "none", value |-> TownReport(town_data, town_name)]

\* main.py lines 193-208: the answer of GET /town/{town_name}/analysis
get_town_analysis(df, town_name) ==
    LET town_name_clean == strip(upper(town_name))
        analysis == get_town_market_analysis(df, town_name_clean)
    IN  IF analysis.raised # "none"
        THEN [status |-> 500, detail |-> "Analysis failed", body |-> None]
        ELSE IF "error" \in DOMAIN analysis.value
        THEN [status |-> 404, detail |-> analysis.value.error, body |-> None]
        ELSE [status |-> 200, detail |-> "", body |-> Some(analysis.value)]

(***************************************************************************)
(* llm_analysis.py                                                         *)
(***************************************************************************)
\* lines 26-47; the advice of lines 31-43 is cut after its first sentence
generate_fallback_analysis(data_has_marker, error_reason) ==
    "LLM analysis unavailable - " \o error_reason \o ".\n\n"
    \o (IF data_has_marker
        THEN "\nBased on historical BTO launch patterns, the recommended towns show significant potential:\n"
        ELSE "Recommendations align with current market trends and historical patterns.")

\* what the two remote generators may answer
OpenAIOutcomes == {"content", "content_none", "RateLimitError", "APIConnectionError"}
PerplexityOutcomes == {"content", "content_none", "status_500", "no_choices",
                       "no_message_key", "Timeout", "ConnectionError"}

\* lines 134-143: the call of the primary generator; raised is the class of
\* the exception that leaves the statement
call_openai(outcome) ==
    CASE outcome = "content" -> [raised |-> "none", value |-> strip(" Analysis by gpt-4o. ")]
      [] outcome = "content_none" -> [raised |-> "AttributeError", value |-> None]
      [] OTHER -> [raised |-> outcome, value |-> None]

\* lines 49-118: every failure leaves the function as a plain Exception
analyze_with_perplexity(key_configured, outcome) ==
    IF ~key_configured
    THEN [raised |-> "Exception", value |-> None]
    ELSE IF outcome = "content"
    THEN [raised |-> "none", value |-> strip("Analysis by sonar-pro.\n")]
    ELSE [raised |-> "Exception", value |-> None]

\* variant: except requests.exceptions.RequestException around the secondary call
LlmHandlerCatches_request_errors(exc) == exc \in {"Timeout", "ConnectionError"}

\* lines 145 and 155: except Exception
LlmHandlerCatches(exc) ==
    exc \in {"Exception", "AttributeError", "RateLimitError", "APIConnectionError",
             "Timeout", "ConnectionError", "KeyError"}

\* lines 120-158.  calls lists the generators in the order they were called.
analyze_with_llm(data_has_marker, openai_outcome, key_configured, perplexity_outcome) ==
    LET primary == call_openai(openai_outcome)
        secondary == analyze_with_perplexity(key_configured, perplexity_outcome)
    IN  IF primary.raised = "none"
        THEN [raised |-> "none", value |-> primary.value, calls |-> <<"openai">>]
        ELSE IF ~LlmHandlerCatches(primary.raised)
        THEN [raised |-> primary.raised, value |-> None, calls |-> <<"openai">>]
        ELSE IF secondary.raised = "none"
        THEN [raised |-> "none", value |-> secondary.value,
              calls |-> <<"openai", "perplexity">>]
        ELSE IF ~LlmHandlerCatches(secondary.raised)
        THEN [raised |-> secondary.raised, value |-> None,
              calls |-> <<"openai", "perplexity">>]
        ELSE [raised |-> "none",
              value |-> generate_fallback_analysis(data_has_marker,
                            "Both OpenAI and Perplexity APIs unavailable"),
              calls |-> <<"openai", "perplexity">>]

(***************************************************************************)
(* POST /predict                                                           *)
(***************************************************************************)
\* main.py lines 94-103
calculate_affordability(bto_price) ==
    IF bto_price <= 300000 THEN "Lower Income (<$7,000)"
    ELSE IF bto_price <= 450000 THEN "Middle Income ($7,000-$14,000)"
    ELSE IF bto_price <= 600000 THEN "Upper Middle Income ($14,000-$21,000)"
    ELSE "High Income (>$21,000)"

\* main.py lines 121-126: the exception of the range validation, if any
ValidateRanges(req) ==
    IF req.floor_area_sqm <= 0 \/ req.floor_area_sqm > 300
    THEN [raised |-> "HTTPException", status_code |-> 400, detail |-> "Invalid floor area"]
    ELSE IF req.storey < 1 \/ req.storey > 50
    THEN [raised |-> "HTTPException", status_code |-> 400, detail |-> "Invalid storey level"]
    ELSE IF req.lease_commence_year < 1960 \/ req.lease_commence_year > 2025
    THEN [raised |-> "HTTPException", status_code |-> 400,
          detail |-> "Invalid lease commence year"]
    ELSE [raised |-> "none", status_code |-> 200, detail |-> ""]

\* main.py lines 148-152: the two handlers of the try statement, in order;
\* fastapi.HTTPException is an Exception and is not a ValueError
PredictHandler(raised) ==
    IF raised = "ValueError"
    THEN [status |-> 400, detail |-> "Invalid input"]
    ELSE [status |-> 500, detail |-> "Prediction failed"]

\* main.py lines 116-152 with the dependency of lines 60-66; model_outcome is
\* what predict_price does: a price or an exception
predict(req, loaded, model_outcome) ==
    IF ~loaded
    THEN [status |-> 503, detail |-> "Model not available. Please check model files.",
          body |-> None]
    ELSE IF ValidateRanges(req).raised # "none"
    THEN [status |-> PredictHandler(ValidateRanges(req).raised).status,
          detail |-> PredictHandler(ValidateRanges(req).raised).detail,
          body |-> None]
    ELSE IF model_outcome.raised # "none"
    THEN [status |-> PredictHandler(model_outcome.raised).status,
          detail |-> PredictHandler(model_outcome.raised).detail,
          body |-> None]
    ELSE LET resale_price == model_outcome.price
             bto_price == (resale_price * (100 - BTO_DISCOUNT_RATE_PCT)) \div 100
         IN  [status |-> 200, detail |-> "",
              body |-> Some([town |-> req.town, flat_type |-> req.flat_type,
                             predicted_resale_price |-> resale_price,
                             predicted_bto_price |-> bto_price,
                             affordability |-> calculate_affordability(bto_price)])]

(***************************************************************************)
(* GET /recommend                                                          *)
(***************************************************************************)
\* main.py lines 167-173: every line of the digest begins "Town: ..., Years
\* since BTO: ...", the marker generate_fallback_analysis looks for
DigestHasMarker(recs) == recs # <<>>

\* variant: without a generated narrative the request fails
recommend_without_fallback(recs, openai_outcome, key_configured, perplexity_outcome) ==
    LET analysis == analyze_with_llm(DigestHasMarker(recs), openai_outcome,
                                     key_configured, perplexity_outcome)
    IN  IF recs = <<>> \/ analysis.raised # "none"
           \/ (openai_outcome # "content"
               /\ (~key_configured \/ perplexity_outcome # "content"))
        THEN [status |-> 500, detail |-> "Recommendation failed", body |-> None,
              calls |-> analysis.calls]
        ELSE [status |-> 200, detail |-> "", calls |-> analysis.calls,
              body |-> Some([prompt |-> "limited_bto_last_decade_with_pricing_analysis",
                             analysis |-> analysis.value,
                             recommended_towns |-> recs])]

\* main.py lines 154-191 after recommend_estates() returned recs.  The 404 of
\* line 164 is raised inside the try statement and leaves it as the 500 of
\* line 191, as does any exception of analyze_with_llm.
recommend(recs, openai_outcome, key_configured, perplexity_outcome) ==
    LET analysis == analyze_with_llm(DigestHasMarker(recs), openai_outcome,
                                     key_configured, perplexity_outcome)
    IN  IF recs = <<>>
        THEN [status |-> 500, detail |-> "Recommendation failed", body |-> None,
              calls |-> <<>>]
        ELSE IF analysis.raised # "none"
        THEN [status |-> 500, detail |-> "Recommendation failed", body |-> None,
              calls |-> analysis.calls]
        ELSE [status |-> 200, detail |-> "", calls |-> analysis.calls,
              body |-> Some([prompt |-> "limited_bto_last_decade_with_pricing_analysis",
                             analysis |-> analysis.value,
                             recommended_towns |-> recs])]

\* well-typed request bodies around the limits of the three ranges
PredictRequests ==
    [town : {"WOODLANDS"}, flat_type : {"4 ROOM"},
     floor_area_sqm : {-10, 0, 300, 301},
     storey : {0, 1, 51},
     lease_commence_year : {1959, 2025, 2026}]

ModelOutcomes ==
    {[raised |-> "none", price |-> price] : price \in {375000, 562500, 800000}}
    \cup {[raised |-> exc, price |-> 0] : exc \in {"ValueError", "RuntimeError"}}

(***************************************************************************)
(* Source extracts (resale_data.csv) the environment may provide           *)
(***************************************************************************)
Row(n, month, town, flat_type, price, lease, area) ==
    [n |-> n, month |-> month, town |-> town, flat_type |-> flat_type,
     resale_price |-> price, lease_commence_date |-> lease, floor_area_sqm |-> area]

NonEmptyRun(r) == r.n > 0

\* the rows of one town: old 4-room sales, recent 4-room sales, recent 3-room sales
TownBlock(town, p) ==
    SelectSeq(<< Row(p.old4, 201906, town, "4 ROOM", p.price_old, p.lease, 90),
                 Row(p.rec4, 202303, town, "4 ROOM", p.price_rec, p.lease - 10, 95),
                 Row(p.rec3, 202201, town, "3 ROOM", 300000, p.lease - 3, 67) >>,
              NonEmptyRun)

Profile(old4, rec4, rec3, price_old, price_rec, lease) ==
    [old4 |-> old4, rec4 |-> rec4, rec3 |-> rec3,
     price_old |-> price_old, price_rec |-> price_rec, lease |-> lease]

\* town profiles around the thresholds of the analysis: 100 rows, 10 recent
\* rows of a flat type, 50 recent rows, a gap of 5 and of 8 years, a target
\* price of 400000
Profiles ==
    { Profile(0, 0, 0, 0, 0, 2000),
      Profile(91, 9, 1, 480000, 520000, 2020),
      Profile(90, 10, 1, 480000, 520000, 2017),
      Profile(90, 10, 0, 520000, 480000, 2010),
      Profile(50, 51, 0, 500000, 500000, 2018),
      Profile(51, 50, 0, 520000, 500001, 2021),
      Profile(0, 0, 101, 0, 0, 2017),
      Profile(3, 3, 95, 480000, 520000, 2020) }

FillProfiles ==
    { Profile(60, 41, 0, 480000, 520000, 2017),
      Profile(0, 12, 90, 600000, 510001, 2020) }

\* the towns whose profile varies, and the filler towns, by TownOrder index
VariedTowns == <<TownOrder[12], TownOrder[5]>>
FillTowns == <<TownOrder[1], TownOrder[3], TownOrder[4], TownOrder[6], TownOrder[7],
               TownOrder[8], TownOrder[9], TownOrder[10], TownOrder[11]>>
AbsentTown == TownOrder[13]

\* rows the loader has to cope with: dropped rows and text cells
DirtyKinds == {"clean", "bad_month", "nan_price", "zero_price", "nan_lease",
               "text_price", "text_lease", "text_area", "inf_price"}

DirtyRows(kind) ==
    LET t == VariedTowns[1]
    IN  CASE kind = "clean" -> <<>>
          [] kind = "bad_month" -> <<Row(1, 202313, t, "5 ROOM", 700000, 2024, 110)>>
          [] kind = "nan_price" -> <<Row(1, 202301, t, "5 ROOM", NaN, 2024, 110)>>
          [] kind = "zero_price" -> <<Row(1, 202301, t, "5 ROOM", 0, 2024, 110)>>
          [] kind = "nan_lease" -> <<Row(1, 202301, t, "5 ROOM", 700000, NaN, 110)>>
          [] kind = "text_price" -> <<Row(1, 202301, t, "5 ROOM", TEXT, 2000, 110)>>
          [] kind = "text_lease" -> <<Row(1, 202301, t, "5 ROOM", 700000, TEXT, 110)>>
          [] kind = "text_area" -> <<Row(1, 202301, t, "5 ROOM", 700000, 2000, TEXT)>>
          [] kind = "inf_price" -> <<Row(1, 202301, t, "5 ROOM", INF, 2000, 110)>>
          [] kind = "lower_town" ->
                <<Row(2, 202210, TownOrder[14], "4 ROOM", 450000, 2001, 92),
                  Row(1, 202304, TownOrder[14], "EXECUTIVE", 810000, 1998, 140)>>

AllColumns == required_columns \cup {"flat_model", "storey_range"}

Extract(p1, p2, fill, pf, kind) ==
    [exists |-> TRUE,
     columns |-> AllColumns,
     rows |-> TownBlock(VariedTowns[1], p1) \o TownBlock(VariedTowns[2], p2)
              \o Flatten([k \in 1..fill |-> TownBlock(FillTowns[k], pf)])
              \o DirtyRows(kind)]

MissingFile == [exists |-> FALSE, columns |-> {}, rows |-> <<>>]

MissingColumn(col) ==
    [exists |-> TRUE, columns |-> AllColumns \ {col},
     rows |-> <<Row(1, 202301, TownOrder[2], "4 ROOM", 500000, 2000, 90)>>]

\* two varied towns among up to MaxFill fillers, and every kind of dirty row
\* next to every profile of the first town, with and without a second town;
\* an infinite price in the first town among MaxFill fillers; two towns with
\* different gaps of more than ten years
GeneratedExtracts ==
    {Extract(p1, p2, fill, pf, "clean") :
        p1 \in Profiles, p2 \in Profiles, fill \in 0..MaxFill, pf \in FillProfiles}
    \cup {Extract(p1, Profile(0, 0, 101, 0, 0, 2017), fill,
                  Profile(60, 41, 0, 480000, 520000, 2017), kind) :
            p1 \in Profiles, fill \in 0..1, kind \in DirtyKinds}
    \cup {Extract(p1, Profile(0, 0, 0, 0, 0, 2000), 0,
                  Profile(60, 41, 0, 480000, 520000, 2017), kind) :
            p1 \in Profiles, kind \in DirtyKinds}
    \cup {Extract(p1, Profile(0, 0, 0, 0, 0, 2000), MaxFill, pf, "inf_price") :
            p1 \in Profiles, pf \in FillProfiles}
    \cup {Extract(Profile(91, 10, 0, 520000, 480000, 2010),
                  Profile(60, 41, 0, 480000, 520000, 2013), 2, pf, "clean") :
            pf \in FillProfiles}
    \cup {MissingFile} \cup {MissingColumn(col) : col \in required_columns}

\* the few extracts the file alternates between while the clock runs
Catalogue ==
    { MissingFile,
      MissingColumn("lease_commence_date"),
      Extract(Profile(0, 0, 0, 0, 0, 2000), Profile(0, 0, 0, 0, 0, 2000),
              0, Profile(60, 41, 0, 480000, 520000, 2017), "text_price"),
      Extract(Profile(90, 10, 1, 480000, 520000, 2017), Profile(0, 0, 101, 0, 0, 2017),
              1, Profile(60, 41, 0, 480000, 520000, 2017), "zero_price"),
      Extract(Profile(0, 0, 0, 0, 0, 2000), Profile(0, 0, 0, 0, 0, 2000),
              0, Profile(60, 41, 0, 480000, 520000, 2017), "clean") }

TickSteps == {1800, 86400}

\* the extracts priced through the worker pool, and the batches of flat types
PricingExtracts ==
    { MissingFile,
      Extract(Profile(90, 10, 1, 480000, 520000, 2017), Profile(0, 0, 0, 0, 0, 2000),
              0, Profile(60, 41, 0, 480000, 520000, 2017), "clean") }

FlatTypeBatches ==
    { <<"3 ROOM", "4 ROOM">>,
      <<"3 ROOM", "4 ROOM", "5 ROOM">>,
      <<"EXECUTIVE", "5 ROOM", "2 ROOM", "3 ROOM", "4 ROOM">> }

\* the extracts behind the HTTP layer, and the zone names of its requests
ApiExtracts ==
    { MissingFile,
      MissingColumn("town"),
      Extract(Profile(90, 10, 1, 480000, 520000, 2017), Profile(0, 0, 101, 0, 0, 2017),
              1, Profile(60, 41, 0, 480000, 520000, 2017), "lower_town"),
      Extract(Profile(3, 3, 95, 480000, 520000, 2020), Profile(0, 0, 0, 0, 0, 2000),
              0, Profile(60, 41, 0, 480000, 520000, 2017), "clean"),
      Extract(Profile(90, 10, 1, 480000, 520000, 2017), Profile(0, 0, 101, 0, 0, 2017),
              0, Profile(60, 41, 0, 480000, 520000, 2017), "text_area"),
      Extract(Profile(91, 9, 1, 480000, 520000, 2020), Profile(50, 51, 0, 500000, 500000, 2018),
              MaxFill, Profile(60, 41, 0, 480000, 520000, 2017), "clean") }

RequestedTowns == {"WOODLANDS", "woodlands", "Woodlands", "woodlands ",
                   "YISHUN", "Yishun", "punggol"}

(***************************************************************************)
(* The state machine                                                       *)
(***************************************************************************)
NoCall == [op |-> "none"]

\* the callers that may be inside load_resale_data at the same time
Threads == {"caller_1", "caller_2", "caller_3"}

InitState(src) ==
    /\ now = 0
    /\ ticks = 0
    /\ source = src
    /\ data_cache = [s \in Services |-> None]
    /\ cache_timestamp = [s \in Services |-> None]
    /\ lru = None
    /\ ret = NoCall
    /\ model_loaded = FALSE
    /\ executor = [tasks |-> <<>>, submitted |-> 0, batches |-> 0]
    /\ call = [pc |-> "idle"]
    /\ threads = [t \in Threads |-> [pc |-> "idle", calls |-> 0]]
    /\ loads = 0

Init == \E src \in Catalogue : InitState(src)

InitData == \E src \in GeneratedExtracts : InitState(src)

\* the clock advances
Tick(d) ==
    /\ ticks < MaxTicks
    /\ now' = now + d
    /\ ticks' = ticks + 1
    /\ UNCHANGED <<source, data_cache, cache_timestamp, lru, ret, http_state, pricing_state, thread_state>>

\* the extract file is replaced
SetSource(src) ==
    /\ src # source
    /\ source' = src
    /\ UNCHANGED <<now, ticks, data_cache, cache_timestamp, lru, ret, http_state, pricing_state, thread_state>>

\* a call s.load_resale_data()
GetTable(s) ==
    LET l == load_resale_data(s, source, data_cache, cache_timestamp, lru, now)
    IN  /\ data_cache' = l.caches
        /\ cache_timestamp' = l.stamps
        /\ lru' = IF l.raised = "none" THEN l.lru ELSE lru
        /\ ret' = [op |-> "load_resale_data", svc |-> s, value |-> l.value,
                   read |-> l.read, hit |-> l.hit, raised |-> l.raised]
        /\ UNCHANGED <<now, ticks, source, http_state, pricing_state, thread_state>>

\* ret is the value of the call that returned last (none while a call that
\* takes time is in progress).
\* the table a caller holds: what the last load_resale_data call returned
HeldTable == ret.op = "load_resale_data" /\ ret.raised = "none"

\* a call analyze_bto_gaps(df) with the table just obtained
AnalyzeBtoGaps ==
    /\ HeldTable
    /\ ret' = [op |-> "analyze_bto_gaps", df |-> ret.value,
               raised |-> analyze_bto_gaps(ret.value).raised,
               value |-> analyze_bto_gaps(ret.value).list]
    /\ UNCHANGED <<now, ticks, source, data_cache, cache_timestamp, lru, http_state, pricing_state, thread_state>>

PricedTowns == {VariedTowns[1], VariedTowns[2], FillTowns[1], AbsentTown}

\* a call calculate_representative_pricing(df, town, flat_type)
CalculateSinglePricing(town, flat_type) ==
    /\ HeldTable
    /\ ret.value # None
    /\ ret' = [op |-> "_calculate_single_pricing", df |-> ret.value,
               town |-> town, flat_type |-> flat_type,
               value |-> _calculate_single_pricing(ret.value[1], town, flat_type)]
    /\ UNCHANGED <<now, ticks, source, data_cache, cache_timestamp, lru, http_state, pricing_state, thread_state>>

\* the zones whose characteristics are asked for
CharacterizedTowns == {VariedTowns[1], AbsentTown}

\* a call get_town_characteristics(df, town) with the value just obtained
GetTownCharacteristics(town) ==
    /\ HeldTable
    /\ ret' = [op |-> "get_town_characteristics", df |-> ret.value, town |-> town,
               raised |-> get_town_characteristics(ret.value, town).raised,
               value |-> get_town_characteristics(ret.value, town)]
    /\ UNCHANGED <<now, ticks, source, data_cache, cache_timestamp, lru, http_state, pricing_state, thread_state>>

\* a call recommend_estates(); line 170 loads through the module-level service
RecommendEstates ==
    LET l == load_resale_data("bto_service", source, data_cache, cache_timestamp,
                              lru, now)
        r == recommend_estates(l.value)
    IN  /\ data_cache' = l.caches
        /\ cache_timestamp' = l.stamps
        /\ lru' = l.lru
        /\ ret' = [op |-> "recommend_estates", df |-> l.value, read |-> l.read,
                   branch |-> IF l.raised = "none" THEN r.branch ELSE "error",
                   value |-> IF l.raised = "none" THEN r.value ELSE ErrorFallback]
        /\ UNCHANGED <<now, ticks, source, http_state, pricing_state, thread_state>>

\* main.py lines 44-58: the startup event reads models/model_features.json
Startup(found) ==
    /\ ret = NoCall
    /\ model_loaded' = found
    /\ ret' = [op |-> "startup"]
    /\ UNCHANGED <<now, ticks, source, data_cache, cache_timestamp, lru,
                   pricing_state, thread_state>>

\* a call get_town_market_analysis(town_name); line 269 loads through the
\* module-level service
GetTownMarketAnalysis(town_name) ==
    LET l == load_resale_data("bto_service", source, data_cache, cache_timestamp,
                              lru, now)
        r == get_town_market_analysis(l.value, town_name)
    IN  /\ data_cache' = l.caches
        /\ cache_timestamp' = l.stamps
        /\ lru' = l.lru
        /\ ret' = [op |-> "get_town_market_analysis", town_name |-> town_name,
                   df |-> l.value, raised |-> r.raised, value |-> r.value]
        /\ UNCHANGED <<now, ticks, source, http_state, pricing_state, thread_state>>

\* a request GET /town/{town_name}/analysis
GetTownAnalysis(town_name) ==
    LET l == load_resale_data("bto_service", source, data_cache, cache_timestamp,
                              lru, now)
        r == get_town_analysis(l.value, town_name)
    IN  /\ data_cache' = l.caches
        /\ cache_timestamp' = l.stamps
        /\ lru' = l.lru
        /\ ret' = [op |-> "get_town_analysis", town_name |-> town_name,
                   df |-> l.value, status |-> r.status, detail |-> r.detail,
                   body |-> r.body]
        /\ UNCHANGED <<now, ticks, source, http_state, pricing_state, thread_state>>

\* a call analyze_with_llm(question, data) with the answers of the two
\* remote generators
AnalyzeWithLlm(data_has_marker, openai_outcome, key_configured, perplexity_outcome) ==
    LET r == analyze_with_llm(data_has_marker, openai_outcome, key_configured,
                              perplexity_outcome)
    IN  /\ ret' = [op |-> "analyze_with_llm", data_has_marker |-> data_has_marker,
                   openai |-> openai_outcome, key_configured |-> key_configured,
                   perplexity |-> perplexity_outcome,
                   raised |-> r.raised, value |-> r.value, calls |-> r.calls]
        /\ UNCHANGED <<now, ticks, source, data_cache, cache_timestamp, lru, http_state, pricing_state, thread_state>>

\* a request POST /predict
Predict(req, model_outcome) ==
    LET r == predict(req, model_loaded, model_outcome)
    IN  /\ ret' = [op |-> "predict", req |-> req, loaded |-> model_loaded,
                   status |-> r.status, detail |-> r.detail, body |-> r.body]
        /\ UNCHANGED <<now, ticks, source, data_cache, cache_timestamp, lru, http_state, pricing_state, thread_state>>

\* a request GET /recommend, with the answers of the two remote generators;
\* recommend_estates loads through the module-level service
Recommend ==
    LET l == load_resale_data("bto_service", source, data_cache, cache_timestamp,
                              lru, now)
        recs == IF l.raised = "none" THEN recommend_estates(l.value).value
                ELSE ErrorFallback
    IN  /\ data_cache' = l.caches
        /\ cache_timestamp' = l.stamps
        /\ lru' = l.lru
        /\ \E openai_outcome \in OpenAIOutcomes, key_configured \in BOOLEAN,
              perplexity_outcome \in PerplexityOutcomes :
              LET r == recommend(recs, openai_outcome, key_configured,
                                 perplexity_outcome)
              IN  ret' = [op |-> "recommend", df |-> l.value,
                          openai |-> openai_outcome,
                          key_configured |-> key_configured,
                          perplexity |-> perplexity_outcome,
                          status |-> r.status, detail |-> r.detail,
                          body |-> r.body, calls |-> r.calls]
        /\ UNCHANGED <<now, ticks, source, http_state, pricing_state, thread_state>>

\* calculate_pricing_async(df, town, flat_types), lines 91-98: one task per
\* flat type goes to the pool; durs[i] is the time the i-th computation takes
SubmitPricing(town, fts, durs) ==
    /\ call.pc = "idle"
    /\ executor.batches < MaxBatches
    /\ executor' =
          [tasks |-> executor.tasks \o
                        [i \in 1..Len(fts) |->
                            [id |-> executor.submitted + i, left |-> durs[i]]],
           submitted |-> executor.submitted + Len(fts),
           batches |-> executor.batches + 1]
    /\ call' = [pc |-> "await", op |-> "calculate_pricing_async",
                df |-> data_cache["bto_service"], town |-> town, flat_types |-> fts,
                futures |-> [i \in 1..Len(fts) |->
                                [flat_type |-> fts[i], id |-> executor.submitted + i,
                                 dur |-> durs[i],
                                 result |-> TaskResult(data_cache["bto_service"],
                                                       town, fts[i]),
                                 done |-> FALSE, collected |-> "pending"]],
                idx |-> 1, waited |-> 0, pricing |-> EmptyDict, warned |-> {},
                submitted_before |-> executor.submitted]
    /\ ret' = NoCall
    /\ UNCHANGED <<now, ticks, source, data_cache, cache_timestamp, lru,
                   http_state, thread_state>>

Awaiting == call.pc = "await" /\ call.idx <= Len(call.futures)

\* line 101: the caller blocks in task.result(timeout=5) for one time unit
AwaitBlocks ==
    /\ Awaiting
    /\ ~call.futures[call.idx].done
    /\ call.waited < RESULT_TIMEOUT
    /\ executor' = ExecutorTick(executor)
    /\ call' = [call EXCEPT !.futures = FuturesAfter(@, FinishedIds(executor)),
                            !.waited = @ + 1]
    /\ UNCHANGED <<now, ticks, source, data_cache, cache_timestamp, lru, ret,
                   http_state, thread_state>>

\* lines 101-104: the awaited task is done
ResultReturns ==
    /\ Awaiting
    /\ call.futures[call.idx].done
    /\ call' = CollectResult(call)
    /\ UNCHANGED <<now, ticks, source, data_cache, cache_timestamp, lru, ret,
                   executor, http_state, thread_state>>

\* lines 101 and 105-106: the awaited task is not done after the timeout
ResultTimesOut ==
    /\ Awaiting
    /\ ~call.futures[call.idx].done
    /\ call.waited = RESULT_TIMEOUT
    /\ call' = CollectTimeout(call)
    /\ UNCHANGED <<now, ticks, source, data_cache, cache_timestamp, lru, ret,
                   executor, http_state, thread_state>>

\* line 108: return pricing
ReturnPricing ==
    /\ call.pc = "await"
    /\ call.idx > Len(call.futures)
    /\ ret' = [op |-> "calculate_pricing_async", df |-> call.df, town |-> call.town,
               flat_types |-> call.flat_types, value |-> call.pricing,
               warned |-> call.warned, futures |-> call.futures,
               submitted |-> executor.submitted - call.submitted_before]
    /\ call' = [pc |-> "idle"]
    /\ UNCHANGED <<now, ticks, source, data_cache, cache_timestamp, lru,
                   executor, http_state, thread_state>>

\* the workers go on while no call is in progress
PoolRuns ==
    /\ call.pc = "idle"
    /\ \E i \in 1..Len(executor.tasks) :
          Running(executor, i) /\ executor.tasks[i].left # Hang
    /\ executor' = ExecutorTick(executor)
    /\ UNCHANGED <<now, ticks, source, data_cache, cache_timestamp, lru, ret, call,
                   http_state, thread_state>>

\* the (town, flat type) pairs of lines 187-196, in the order they are priced
PricingPairs(town_analysis) ==
    [k \in 1..(Len(LoopSlice(town_analysis)) * Len(flat_types)) |->
        << LoopSlice(town_analysis)[((k - 1) \div Len(flat_types)) + 1].town,
           flat_types[((k - 1) % Len(flat_types)) + 1] >>]

\* recommend_estates() up to the first pricing computation of line 196, which
\* takes d time units; without a candidate to price the call returns at once
RankBegin(d) ==
    LET l == load_resale_data("bto_service", source, data_cache, cache_timestamp,
                              lru, now)
        r == recommend_estates(l.value)
        pairs == IF l.raised = "none" /\ r.branch = "ranked"
                 THEN PricingPairs(analyze_bto_gaps(l.value).list) ELSE <<>>
    IN  /\ call.pc = "idle"
        /\ data_cache' = l.caches
        /\ cache_timestamp' = l.stamps
        /\ lru' = l.lru
        /\ IF pairs = <<>>
           THEN /\ ret' = [op |-> "recommend_estates", df |-> l.value, read |-> l.read,
                           branch |-> IF l.raised = "none" THEN r.branch ELSE "error",
                           value |-> IF l.raised = "none" THEN r.value ELSE ErrorFallback,
                           late |-> {}]
                /\ call' = call
           ELSE /\ ret' = NoCall
                /\ call' = [pc |-> "pricing", op |-> "recommend_estates",
                            df |-> l.value, read |-> l.read, pairs |-> pairs,
                            idx |-> 1, dur |-> d, elapsed |-> 0, late |-> {}]
        /\ UNCHANGED <<now, ticks, source, executor, http_state, thread_state>>

\* line 196: the caller is inside _calculate_single_pricing for one time unit
ComputeRuns ==
    /\ call.pc = "pricing"
    /\ call.dur = Hang \/ call.elapsed < call.dur
    /\ call.elapsed < MaxElapsed
    /\ executor' = ExecutorTick(executor)
    /\ call' = [call EXCEPT !.elapsed = @ + 1]
    /\ UNCHANGED <<now, ticks, source, data_cache, cache_timestamp, lru, ret,
                   http_state, thread_state>>

\* lines 196-199: the computation returns and the next one, taking d, begins
PairDone(d) ==
    /\ call.pc = "pricing"
    /\ call.elapsed = call.dur
    /\ call.idx < Len(call.pairs)
    /\ call' = [call EXCEPT !.idx = @ + 1, !.dur = d, !.elapsed = 0,
                            !.late = IF call.dur > RESULT_TIMEOUT
                                     THEN @ \cup {call.pairs[call.idx]} ELSE @]
    /\ UNCHANGED <<now, ticks, source, data_cache, cache_timestamp, lru, ret,
                   executor, http_state, thread_state>>

\* lines 196-243: the last computation returns and the call runs to its return
RankReturn ==
    /\ call.pc = "pricing"
    /\ call.elapsed = call.dur
    /\ call.idx = Len(call.pairs)
    /\ ret' = [op |-> "recommend_estates", df |-> call.df, read |-> call.read,
               branch |-> recommend_estates(call.df).branch,
               value |-> recommend_estates(call.df).value,
               late |-> IF call.dur > RESULT_TIMEOUT
                        THEN call.late \cup {call.pairs[call.idx]} ELSE call.late]
    /\ call' = [pc |-> "idle"]
    /\ UNCHANGED <<now, ticks, source, data_cache, cache_timestamp, lru,
                   executor, http_state, thread_state>>

\* what the memo holds after a caller comes back with value: functools keeps
\* an entry that another caller stored for the same key in the meantime
MemoAfter(memo, s, value) ==
    IF LruHit(memo, s) THEN memo ELSE Some([key |-> s, value |-> value])

\* caller t comes back from load_resale_data
Returned(t, value, read, hit, raised) ==
    /\ threads' = [threads EXCEPT ![t] = [pc |-> "idle", calls |-> @.calls + 1]]
    /\ ret' = [op |-> "load_resale_data", svc |-> "bto_service", value |-> value,
               read |-> read, hit |-> hit, raised |-> raised]

\* line 27: caller t enters bto_service.load_resale_data(); the lookup of the
\* memo either answers or lets the body run
ThreadCalls(t) ==
    /\ threads[t].pc = "idle"
    /\ threads[t].calls < MaxCalls
    /\ IF LruHit(lru, "bto_service")
       THEN Returned(t, lru[1].value, FALSE, TRUE, "none")
       ELSE /\ threads' = [threads EXCEPT ![t].pc = "body"]
            /\ ret' = ret
    /\ UNCHANGED <<now, ticks, source, data_cache, cache_timestamp, lru, loads,
                   http_state, pricing_state>>

\* lines 32-35: the validity test of the cache entry
ThreadChecks(t) ==
    /\ threads[t].pc = "body"
    /\ IF CacheValid(data_cache["bto_service"], cache_timestamp["bto_service"], now)
       THEN /\ Returned(t, data_cache["bto_service"], FALSE, FALSE, "none")
            /\ lru' = MemoAfter(lru, "bto_service", data_cache["bto_service"])
       ELSE /\ threads' = [threads EXCEPT ![t].pc = "reading"]
            /\ ret' = ret
            /\ lru' = lru
    /\ UNCHANGED <<now, ticks, source, data_cache, cache_timestamp, loads,
                   http_state, pricing_state>>

\* lines 37-51 and 60-62: the extract is read and cleaned into a local table,
\* or the handler returns None
ThreadReads(t) ==
    LET l == LoadFromSource(source, now)
    IN  /\ threads[t].pc = "reading"
        /\ loads' = loads + 1
        /\ IF l.exc = "none"
           THEN /\ threads' = [threads EXCEPT ![t] =
                                  [pc |-> "loaded", calls |-> @.calls, df |-> l.df]]
                /\ ret' = ret
                /\ lru' = lru
           ELSE /\ Returned(t, None, TRUE, FALSE,
                            IF HandlerCatches(l.exc) THEN "none" ELSE l.exc)
                /\ lru' = IF HandlerCatches(l.exc)
                          THEN MemoAfter(lru, "bto_service", None) ELSE lru
        /\ UNCHANGED <<now, ticks, source, data_cache, cache_timestamp,
                       http_state, pricing_state>>

\* lines 54-58: the local table becomes the cache entry and is returned
ThreadStores(t) ==
    /\ threads[t].pc = "loaded"
    /\ data_cache' = [data_cache EXCEPT !["bto_service"] = threads[t].df]
    /\ cache_timestamp' = [cache_timestamp EXCEPT !["bto_service"] = Some(now)]
    /\ lru' = MemoAfter(lru, "bto_service", threads[t].df)
    /\ Returned(t, threads[t].df, TRUE, FALSE, "none")
    /\ UNCHANGED <<now, ticks, source, loads, http_state, pricing_state>>

\* line 209 evaluated for two gaps
ComputeDemandScore(g1, g2) ==
    /\ ret' = [op |-> "demand_score", years_gap |-> <<g1, g2>>,
               value |-> <<DemandScore(g1), DemandScore(g2)>>]
    /\ UNCHANGED <<now, ticks, source, data_cache, cache_timestamp, lru,
                   http_state, pricing_state, thread_state>>

Next ==
    \/ \E d \in TickSteps : Tick(d)
    \/ \E src \in Catalogue : SetSource(src)
    \/ \E s \in Services : GetTable(s)
    \/ RecommendEstates

\* the calls made through the module-level wrappers
NextData ==
    \/ GetTable("bto_service")
    \/ AnalyzeBtoGaps
    \/ \E town \in PricedTowns, flat_type \in {"3 ROOM", "4 ROOM", "5 ROOM", "EXECUTIVE"} :
          CalculateSinglePricing(town, flat_type)
    \/ \E town \in CharacterizedTowns : GetTownCharacteristics(town)
    \/ RecommendEstates

\* the service under a clock and a changing extract
Spec == Init /\ [][Next]_vars

\* the service on one generated extract
SpecData == InitData /\ [][NextData]_vars

InitApi == \E src \in ApiExtracts : InitState(src)

\* the requests the HTTP layer serves
NextApi ==
    \/ \E found \in BOOLEAN : Startup(found)
    \/ \E town_name \in RequestedTowns : GetTownMarketAnalysis(town_name)
    \/ \E town_name \in RequestedTowns : GetTownAnalysis(town_name)
    \/ \E req \in PredictRequests, model_outcome \in ModelOutcomes :
          Predict(req, model_outcome)
    \/ \E data_has_marker \in BOOLEAN, openai_outcome \in OpenAIOutcomes,
          key_configured \in BOOLEAN, perplexity_outcome \in PerplexityOutcomes :
          AnalyzeWithLlm(data_has_marker, openai_outcome, key_configured,
                         perplexity_outcome)

\* the HTTP layer over one extract
SpecApi == InitApi /\ [][NextApi]_vars

\* the requests GET /recommend over one extract, served one after another
NextRecommend == Recommend

SpecRecommend == InitApi /\ [][NextRecommend]_vars

InitPricing == \E src \in PricingExtracts : InitState(src)

\* pricing through the worker pool and inside a ranking call.  Time is counted
\* by the timers of the call and of the tasks; the clock of the cache, whose
\* unit is far larger and which the memoised loader of the one service never
\* consults, stands still.
NextPricing ==
    \/ call.pc = "idle" /\ GetTable("bto_service")
    \/ \E fts \in FlatTypeBatches : \E durs \in [1..Len(fts) -> Durations] :
          SubmitPricing(VariedTowns[1], fts, durs)
    \/ AwaitBlocks
    \/ ResultReturns
    \/ ResultTimesOut
    \/ ReturnPricing
    \/ PoolRuns
    \/ \E d \in Durations : RankBegin(d)
    \/ ComputeRuns
    \/ \E d \in Durations : PairDone(d)
    \/ RankReturn

SpecPricing == InitPricing /\ [][NextPricing]_vars

\* concurrent callers of bto_service.load_resale_data() on one extract; the
\* clock stands still, so a behaviour lies within one TTL window
NextThreads ==
    \E t \in Threads :
        \/ ThreadCalls(t)
        \/ ThreadChecks(t)
        \/ ThreadReads(t)
        \/ ThreadStores(t)

SpecThreads == Init /\ [][NextThreads]_vars

\* the demand score over the gaps a table can give: the newest vintage of a
\* zone may lie before or after CURRENT_YEAR
NextScore == \E g1, g2 \in (0 - MaxGap)..MaxGap : ComputeDemandScore(g1, g2)

SpecScore == Init /\ [][NextScore]_vars

(***************************************************************************)
(* Properties                                                              *)
(***************************************************************************)
\* what a table says about one zone, counted row by row
ZoneTotal(rows, town) == NRows(TownRows(rows, town))

ZoneRecent(rows, town) ==
    LET Recent(r) == r.town = town /\ r.transaction_year >= RECENT_YEAR
    IN  NRows(SelectSeq(rows, Recent))

ZoneGap(rows, town) ==
    CURRENT_YEAR - MaxOf({rows[i].lease_commence_date :
                            i \in {j \in 1..Len(rows) : rows[j].town = town}})

ZoneQualifies(rows, town) ==
    /\ TownPresent(rows, town)
    /\ ZoneTotal(rows, town) > ACTIVITY_FLOOR
    /\ ZoneGap(rows, town) >= MIN_YEARS_SINCE_LAUNCH

InOutput(list, town) == \E k \in 1..Len(list) : list[k].town = town

AllTowns == {TownOrder[i] : i \in 1..Len(TownOrder)}

\* C1: recommend_estates returns a non-empty list of at most 6 entries
\* whatever the state of the source table (unreadable, empty, without or
\* with qualifying zones).
C1_NonEmptyAtMostSix ==
    ret.op = "recommend_estates" =>
        Len(ret.value) >= 1 /\ Len(ret.value) <= FINAL_CAP

\* the records matching zone and unit type, and the recent ones among them
Matching(rows, town, flat_type) ==
    LET Match(r) == r.town = town /\ r.flat_type = flat_type
    IN  SelectSeq(rows, Match)

MatchingRecent(rows, town, flat_type) ==
    LET Match(r) == r.transaction_year >= RECENT_YEAR
    IN  SelectSeq(Matching(rows, town, flat_type), Match)

\* price v stands at position k of the prices of g in ascending order
Occupies(g, v, k) ==
    /\ SumSeq([i \in 1..Len(g) |-> IF g[i].resale_price < v THEN g[i].n ELSE 0]) < k
    /\ SumSeq([i \in 1..Len(g) |-> IF g[i].resale_price <= v THEN g[i].n ELSE 0]) >= k

\* m2 is twice the median of the prices of g: the sum of the prices at the
\* two middle positions (one position, counted twice, for an odd count)
IsMedian2(g, m2) ==
    \E lo \in {g[i].resale_price : i \in 1..Len(g)} :
    \E hi \in {g[i].resale_price : i \in 1..Len(g)} :
        /\ Occupies(g, lo, (NRows(g) + 1) \div 2)
        /\ Occupies(g, hi, NRows(g) \div 2 + 1)
        /\ m2 = lo + hi

\* C2: _calculate_single_pricing returns the median of the matching records
\* of 2022 or later when there are at least 10 of them, otherwise the median
\* of all matching records when there is one, and None exactly when no record
\* matches zone and unit type.
C2_TieredMedian ==
    ret.op = "_calculate_single_pricing" =>
        LET all == Matching(ret.df[1], ret.town, ret.flat_type)
            recent == MatchingRecent(ret.df[1], ret.town, ret.flat_type)
        IN  /\ NRows(recent) >= RELIABLE_MINIMUM
                  => ret.value # None /\ IsMedian2(recent, ret.value[1])
            /\ NRows(recent) < RELIABLE_MINIMUM /\ NRows(all) >= 1
                  => ret.value # None /\ IsMedian2(all, ret.value[1])
            /\ ret.value = None <=> NRows(all) = 0

\* C2 witness: exactly ten recent records whose median differs from the
\* all-time median, and the recent median was returned
C2_Witness ==
    /\ ret.op = "_calculate_single_pricing"
    /\ NRows(MatchingRecent(ret.df[1], ret.town, ret.flat_type)) = RELIABLE_MINIMUM
    /\ ret.value # None
    /\ IsMedian2(MatchingRecent(ret.df[1], ret.town, ret.flat_type), ret.value[1])
    /\ ~IsMedian2(Matching(ret.df[1], ret.town, ret.flat_type), ret.value[1])

AnalysisDone == ret.op = "analyze_bto_gaps" /\ ret.raised = "none" /\ ret.df # None

\* C3 as stated: a zone is in the output of analyze_bto_gaps if and only if
\* its record count is > 100 and its years-since-launch is >= 5, for any
\* number of qualifying zones.
C3_Original ==
    AnalysisDone =>
        \A town \in AllTowns :
            InOutput(ret.value, town) <=> ZoneQualifies(ret.df[1], town)

\* zone u comes before zone t in the order of the output
ZoneBefore(rows, u, t) ==
    \/ ZoneGap(rows, u) > ZoneGap(rows, t)
    \/ /\ ZoneGap(rows, u) = ZoneGap(rows, t)
       /\ ZoneRecent(rows, u) > ZoneRecent(rows, t)
    \/ /\ ZoneGap(rows, u) = ZoneGap(rows, t)
       /\ ZoneRecent(rows, u) = ZoneRecent(rows, t)
       /\ TownIndex(u) < TownIndex(t)

QualifyingZones(rows) == {town \in AllTowns : ZoneQualifies(rows, town)}

\* C3 amended: a zone is in the output if and only if it qualifies (count
\* > 100, years-since-launch >= 5) and fewer than 8 qualifying zones come
\* before it in the output order.
C3_QualifiedWithinTopK ==
    AnalysisDone =>
        \A town \in AllTowns :
            InOutput(ret.value, town) <=>
                /\ ZoneQualifies(ret.df[1], town)
                /\ Cardinality({u \in QualifyingZones(ret.df[1]) :
                                    ZoneBefore(ret.df[1], u, town)}) < TOP_K

\* C3 witness: an analysis of a table with more than 8 qualifying zones, of
\* which 8 were returned
C3_Witness ==
    /\ AnalysisDone
    /\ Cardinality(QualifyingZones(ret.df[1])) > TOP_K
    /\ Len(ret.value) = TOP_K

\* C4: the output of analyze_bto_gaps is sorted non-increasing by
\* (years_since_launch, recent count), and zones equal on both keys keep the
\* order of the grouping step (the order of the group keys).
C4_SortedStable ==
    AnalysisDone =>
        \A i \in 1..Len(ret.value) : \A j \in 1..Len(ret.value) :
            i < j =>
                LET a == ret.value[i]
                    b == ret.value[j]
                IN  \/ a.years_since_last_major_launch > b.years_since_last_major_launch
                    \/ /\ a.years_since_last_major_launch = b.years_since_last_major_launch
                       /\ a.recent_transactions > b.recent_transactions
                    \/ /\ a.years_since_last_major_launch = b.years_since_last_major_launch
                       /\ a.recent_transactions = b.recent_transactions
                       /\ TownIndex(a.town) < TownIndex(b.town)

\* C4 witness: an output in which the sort moved a zone in front of an
\* alphabetically earlier one, next to two zones equal on both keys
C4_Witness ==
    /\ AnalysisDone
    /\ \E i \in 1..Len(ret.value) : \E j \in 1..Len(ret.value) :
          /\ i < j
          /\ TownIndex(ret.value[i].town) > TownIndex(ret.value[j].town)
          /\ ret.value[i].years_since_last_major_launch
                = ret.value[j].years_since_last_major_launch
    /\ \E i \in 1..Len(ret.value) : \E j \in 1..Len(ret.value) :
          /\ i < j
          /\ ret.value[i].years_since_last_major_launch
                = ret.value[j].years_since_last_major_launch
          /\ ret.value[i].recent_transactions = ret.value[j].recent_transactions

\* the age of the cache entry of service s, in seconds
CacheAge(s) == now - cache_timestamp[s][1]

HasCacheEntry(s) == data_cache[s] # None /\ cache_timestamp[s] # None

\* C5: when a cache entry exists and its age is below the TTL (3600), a
\* load_resale_data call returns the cached table, does not read the source
\* extract and leaves the cache timestamp as it was.
C5_FreshServedFromCache ==
    [][\A s \in Services :
          GetTable(s) /\ HasCacheEntry(s) /\ CacheAge(s) < cache_duration
             => /\ ret'.value = data_cache[s]
                /\ ~ret'.read
                /\ cache_timestamp' = cache_timestamp
                /\ data_cache' = data_cache]_vars

\* C5 witness: a call whose body ran (no memoised result for the service)
\* and answered from a cache entry younger than the TTL
C5_Witness ==
    /\ ret.op = "load_resale_data"
    /\ ~ret.hit
    /\ ~ret.read
    /\ HasCacheEntry(ret.svc)
    /\ CacheAge(ret.svc) > 0
    /\ CacheAge(ret.svc) < cache_duration
    /\ ret.value = data_cache[ret.svc]

\* C6: whenever the age of the cache entry has reached the TTL, the next
\* load_resale_data call on that service reads the source extract again and,
\* when the load succeeds, returns the new table and stamps it with the time
\* of the reload.
C6_StaleReloads ==
    [][\A s \in Services :
          GetTable(s) /\ HasCacheEntry(s) /\ CacheAge(s) >= cache_duration
             => /\ ret'.read
                /\ LoadFromSource(source, now).exc = "none"
                      => /\ ret'.value = LoadFromSource(source, now).df
                         /\ cache_timestamp'[s] = Some(now)]_vars

MissingRequiredColumn(src) == src.exists /\ required_columns \ src.columns # {}

\* C7: a load that fails on a missing required column returns None and leaves
\* the cached table and the timestamp as they were; cache and timestamp
\* change only on a successful load, to the complete new table and its time.
C7_FailedReloadKeepsCache ==
    [][\A s \in Services :
          GetTable(s) =>
             /\ ret'.read /\ MissingRequiredColumn(source)
                   => /\ ret'.value = None
                      /\ data_cache' = data_cache
                      /\ cache_timestamp' = cache_timestamp
             /\ (cache_timestamp' # cache_timestamp \/ data_cache' # data_cache)
                   => /\ LoadFromSource(source, now).exc = "none"
                      /\ ret'.value = LoadFromSource(source, now).df
                      /\ data_cache' = [data_cache EXCEPT ![s] = ret'.value]
                      /\ cache_timestamp' = [cache_timestamp EXCEPT ![s] = Some(now)]]_vars

\* C7 witness: a reload has just failed on a missing column, returned None,
\* and the service still holds the table and timestamp of its earlier load
C7_Witness ==
    /\ ret.op = "load_resale_data"
    /\ ret.read
    /\ ret.value = None
    /\ MissingRequiredColumn(source)
    /\ HasCacheEntry(ret.svc)
    /\ data_cache[ret.svc][1] # <<>>
    /\ CacheAge(ret.svc) >= cache_duration

\* C8: load_resale_data never raises: an exception while reading the source,
\* validating the columns or filtering the rows ends in the return value None.
C8_NeverRaises ==
    [][\A s \in Services :
          GetTable(s) =>
             /\ ret'.raised = "none"
             /\ ret'.read /\ LoadFromSource(source, now).exc # "none"
                   => ret'.value = None]_vars

\* C8 witness: a call that read an existing extract with all its columns,
\* failed on the price comparison and returned None
C8_Witness ==
    /\ ret.op = "load_resale_data"
    /\ ret.read
    /\ ret.raised = "none"
    /\ ret.value = None
    /\ LoadFromSource(source, now).exc = "TypeError"

\* the rationale the three triggers call for
ExpectedRationale(e) ==
    LET long_gap == e.years_since_last_major_launch >= LONG_GAP
        active == e.recent_market_activity > ACTIVE_MARKET
        affordable == /\ "4_room" \in DOMAIN e.predicted_pricing
                      /\ e.predicted_pricing["4_room"] < AFFORDABLE_LIMIT
        c1 == "No major launches for " \o ToString(e.years_since_last_major_launch)
                 \o " years"
        c2 == "Active resale market (" \o ToString(e.recent_market_activity)
                 \o " recent transactions)"
        c3 == "Affordable pricing segment"
    IN  CASE long_gap /\ active /\ affordable -> c1 \o "; " \o c2 \o "; " \o c3
          [] long_gap /\ active /\ ~affordable -> c1 \o "; " \o c2
          [] long_gap /\ ~active /\ affordable -> c1 \o "; " \o c3
          [] long_gap /\ ~active /\ ~affordable -> c1
          [] ~long_gap /\ active /\ affordable -> c2 \o "; " \o c3
          [] ~long_gap /\ active /\ ~affordable -> c2
          [] ~long_gap /\ ~active /\ affordable -> c3
          [] ~long_gap /\ ~active /\ ~affordable -> "Moderate BTO opportunity"

\* C9: the rationale of every ranked entry is the "; "-joined sequence, in
\* fixed order, of exactly the clauses whose trigger holds - gap >= 8, recent
\* activity > 50, a 4-room target price that is present and < 400000 - and
\* is "Moderate BTO opportunity" if and only if none holds.
C9_RationaleClauses ==
    ret.op = "recommend_estates" /\ ret.branch = "ranked" =>
        \A k \in 1..Len(ret.value) :
            ret.value[k].rationale = ExpectedRationale(ret.value[k])

RecommendationFields ==
    {"town", "years_since_last_major_launch", "demand_score", "recent_market_activity",
     "predicted_pricing", "rationale", "market_characteristics"}

\* C10: on total failure (no table, or an exception out of the ranking body)
\* recommend_estates returns one and the same single-element fallback list,
\* whose entry has every field of a recommendation entry.
C10_OneWellTypedFallback ==
    ret.op = "recommend_estates" /\ ret.branch \in {"unavailable", "error"} =>
        /\ Len(ret.value) = 1
        /\ DOMAIN ret.value[1] = RecommendationFields
        /\ ret.value = ErrorFallback

\* C11: in every ranked entry the pricing dict has the key of a flat type of
\* {3 ROOM, 4 ROOM, 5 ROOM} if and only if _calculate_single_pricing returned
\* a value for (town, flat type) on the table; the value is the whole number
\* nearest to 0.8 times the estimate (the estimate is kept doubled, so
\* |v - 0.8 * m2 / 2| <= 1/2 reads |5 v - 2 m2| <= 2), and the dict has no
\* other key.
C11_PricingIffEstimate ==
    ret.op = "recommend_estates" /\ ret.branch = "ranked" =>
        \A k \in 1..Len(ret.value) :
            LET e == ret.value[k]
                pricing == e.predicted_pricing
            IN  /\ DOMAIN pricing \subseteq {"3_room", "4_room", "5_room"}
                /\ \A ft \in {"3 ROOM", "4 ROOM", "5 ROOM"} :
                      LET estimate == _calculate_single_pricing(ret.df[1], e.town, ft)
                      IN  /\ PricingKey(ft) \in DOMAIN pricing <=> estimate # None
                          /\ estimate # None =>
                                LET d == 5 * pricing[PricingKey(ft)] - 2 * estimate[1]
                                IN  d >= -2 /\ d <= 2

\* a ranked entry with one flat type priced by a value that had to be rounded
\* and another flat type without an estimate
C11_Witness ==
    /\ ret.op = "recommend_estates" /\ ret.branch = "ranked"
    /\ \E k \in 1..Len(ret.value) :
          LET e == ret.value[k]
          IN  /\ \E ft \in {"3 ROOM", "4 ROOM", "5 ROOM"} :
                    /\ PricingKey(ft) \in DOMAIN e.predicted_pricing
                    /\ 5 * e.predicted_pricing[PricingKey(ft)]
                          # 2 * _calculate_single_pricing(ret.df[1], e.town, ft)[1]
              /\ \E ft \in {"3 ROOM", "4 ROOM", "5 ROOM"} :
                    PricingKey(ft) \notin DOMAIN e.predicted_pricing

\* C12: analyze_bto_gaps returns at most 8 summaries, each carrying the
\* years-since-launch of its zone, and returns the empty list without raising
\* when the table is None, is empty, or has no zone with more than 100 records
\* and a years-since-launch of at least 5.
C12_AtMostTopKOrEmpty ==
    ret.op = "analyze_bto_gaps" =>
        /\ ret.raised = "none" =>
              /\ Len(ret.value) <= TOP_K
              /\ \A k \in 1..Len(ret.value) :
                    /\ "years_since_last_major_launch" \in DOMAIN ret.value[k]
                    /\ ret.value[k].years_since_last_major_launch
                          = ZoneGap(ret.df[1], ret.value[k].town)
        /\ (\/ ret.df = None
            \/ ret.df[1] = <<>>
            \/ \A town \in AllTowns : ~ZoneQualifies(ret.df[1], town))
              => ret.raised = "none" /\ ret.value = <<>>

\* C13: when recommend_estates is called again right after a recommend_estates
\* call (no other call in between; the clock and the source file may have
\* moved), and the service holds a cache entry younger than the TTL, the
\* second call returns the same list as the first: same length, same order,
\* same field values.
C13_ConsecutiveCallsIdentical ==
    [][(/\ ret.op = "recommend_estates"
        /\ RecommendEstates
        /\ HasCacheEntry("bto_service")
        /\ CacheAge("bto_service") < cache_duration)
          => /\ ret'.op = "recommend_estates"
             /\ ret'.value = ret.value]_vars

\* a ranked, non-empty list computed without reading the source, from a cache
\* entry that has aged but is within the TTL, while the source file no longer
\* holds the ranked table
C13_Witness ==
    /\ ret.op = "recommend_estates"
    /\ ret.branch = "ranked"
    /\ ret.value # <<>>
    /\ ~ret.read
    /\ HasCacheEntry("bto_service")
    /\ CacheAge("bto_service") > 0
    /\ CacheAge("bto_service") < cache_duration
    /\ LoadFromSource(source, now).df # ret.df

\* two names that differ at most in the case of their letters
SameNameIgnoringCase(a, b) ==
    \/ a = b
    \/ \E class \in {{"WOODLANDS", "woodlands", "Woodlands"},
                     {"YISHUN", "yishun", "Yishun"},
                     {"PUNGGOL", "punggol"},
                     {"WOODLANDS ", "woodlands "}} : a \in class /\ b \in class

RecordsOfZone(rows, name) ==
    LET Same(r) == SameNameIgnoringCase(r.town, name)
    IN  NRows(SelectSeq(rows, Same))

\* C14: get_town_market_analysis matches the zone name without regard to
\* case: on a table without a record of the zone it returns the error value
\* "No data found for <name>", and whenever it returns a report, at least one
\* record matches and the report counts exactly the matching records; on a
\* table with a record of the zone, in whatever case, it does not return the
\* error value.  The endpoint answers 404 exactly in the first case and 200
\* only with a report.
C14_CaseInsensitiveOrNotFound ==
    /\ ret.op = "get_town_market_analysis" /\ ret.df # None =>
          /\ RecordsOfZone(ret.df[1], ret.town_name) = 0 =>
                /\ ret.raised = "none"
                /\ ret.value = [error |-> "No data found for " \o ret.town_name]
          /\ RecordsOfZone(ret.df[1], ret.town_name) >= 1 =>
                \/ ret.raised # "none"
                \/ "error" \notin DOMAIN ret.value
          /\ (ret.raised = "none" /\ "error" \notin DOMAIN ret.value) =>
                /\ RecordsOfZone(ret.df[1], ret.town_name) >= 1
                /\ ret.value.total_transactions
                      = RecordsOfZone(ret.df[1], ret.town_name)
    /\ ret.op = "get_town_analysis" /\ ret.df # None =>
          /\ RecordsOfZone(ret.df[1], strip(ret.town_name)) = 0 => ret.status = 404
          /\ RecordsOfZone(ret.df[1], strip(ret.town_name)) >= 1 => ret.status # 404
          /\ ret.status = 200 =>
                /\ RecordsOfZone(ret.df[1], strip(ret.town_name)) >= 1
                /\ ret.body[1].total_transactions
                      = RecordsOfZone(ret.df[1], strip(ret.town_name))

\* a report for a request spelled "Yishun" on a table that spells the zone
\* "yishun"
C14_Witness ==
    /\ ret.op = "get_town_market_analysis"
    /\ ret.town_name = "Yishun"
    /\ ret.raised = "none"
    /\ "error" \notin DOMAIN ret.value
    /\ ret.value.total_transactions = 3
    /\ \A i \in 1..Len(ret.df[1]) : ret.df[1][i].town # ret.town_name

PrimaryFailed == ret.openai # "content"

SecondaryFailed == ~ret.key_configured \/ ret.perplexity # "content"

\* C15: analyze_with_llm never raises and returns a string.  The primary
\* generator (OpenAI) is called first and once; the secondary generator
\* (Perplexity) is called if and only if the primary attempt failed; the
\* templated fallback is returned if and only if both failed, and otherwise
\* the text of the first generator that answered.
C15_ThreeTierFallback ==
    ret.op = "analyze_with_llm" =>
        /\ ret.raised = "none"
        /\ ret.value \in STRING
        /\ ret.calls[1] = "openai"
        /\ ret.calls \in {<<"openai">>, <<"openai", "perplexity">>}
        /\ Len(ret.calls) = 2 <=> PrimaryFailed
        /\ ~PrimaryFailed => ret.value = "Analysis by gpt-4o."
        /\ PrimaryFailed /\ ~SecondaryFailed => ret.value = "Analysis by sonar-pro."
        /\ (PrimaryFailed /\ SecondaryFailed) <=>
              ret.value \in {generate_fallback_analysis(m,
                                "Both OpenAI and Perplexity APIs unavailable") :
                             m \in BOOLEAN}

\* both generators were called, the second one without a configured key, and
\* the caller got the fallback text
C15_Witness ==
    /\ ret.op = "analyze_with_llm"
    /\ ret.openai = "content_none"
    /\ ~ret.key_configured
    /\ ret.calls = <<"openai", "perplexity">>
    /\ ret.raised = "none"
    /\ ret.value = generate_fallback_analysis(ret.data_has_marker,
                        "Both OpenAI and Perplexity APIs unavailable")

OutOfRange(req) ==
    \/ req.floor_area_sqm <= 0 \/ req.floor_area_sqm > 300
    \/ req.storey < 1 \/ req.storey > 50
    \/ req.lease_commence_year < 1960 \/ req.lease_commence_year > 2025

\* C16: POST /predict with floor_area_sqm <= 0 or > 300, storey outside
\* 1..50 or lease_commence_year outside 1960..2025 is answered with status 400.
C16_OutOfRangeIs400 ==
    ret.op = "predict" /\ OutOfRange(ret.req) => ret.status = 400

\* the entries of every candidate of analyze_bto_gaps that is processed
\* without failure, none left out
AllProcessed(df) ==
    LET town_analysis == analyze_bto_gaps(df).list
    IN  Flatten([i \in 1..Len(town_analysis) |->
                    ProcessCandidate(df, town_analysis[i]).recommendation])

\* C17: the ranked result is the first 6 entries of the sorted list of the
\* entries of all candidates (up to 8) that were processed without failure,
\* so it has min(6, number of such candidates) entries.
C17_SortAllThenTruncate ==
    ret.op = "recommend_estates" /\ ret.branch = "ranked" =>
        /\ ret.value = Prefix(list_sort(AllProcessed(ret.df)), FINAL_CAP)
        /\ Len(ret.value) = IF Len(AllProcessed(ret.df)) < FINAL_CAP
                            THEN Len(AllProcessed(ret.df)) ELSE FINAL_CAP

\* a ranking over 8 candidates with different gaps, all processed, of which 6
\* are returned
C17_Witness ==
    /\ ret.op = "recommend_estates" /\ ret.branch = "ranked"
    /\ Len(analyze_bto_gaps(ret.df).list) = TOP_K
    /\ Len(AllProcessed(ret.df)) = TOP_K
    /\ Len(ret.value) = FINAL_CAP
    /\ \E i, j \in 1..TOP_K :
          analyze_bto_gaps(ret.df).list[i].years_since_last_major_launch
             # analyze_bto_gaps(ret.df).list[j].years_since_last_major_launch

\* C18: inside a recommend_estates call a pricing computation that has not
\* finished after the timeout (5) is given up - the call is never found
\* waiting for one computation for longer than that - and the flat type of
\* such a computation is left out of the pricing of its entry in the list the
\* call returns.
C18_SlowPricingDropped ==
    /\ call.pc = "pricing" => call.elapsed <= RESULT_TIMEOUT
    /\ ret.op = "recommend_estates" /\ ret.branch = "ranked" =>
          \A pair \in ret.late : \A k \in 1..Len(ret.value) :
              ret.value[k].town = pair[1] =>
                  PricingKey(pair[2]) \notin DOMAIN ret.value[k].predicted_pricing

\* the i-th task of the batch computed a price
TaskPriced(i) ==
    ret.futures[i].result.raised = "none" /\ ret.futures[i].result.value # None

\* C19 (submission): every flat type of the batch has exactly one task, and
\* the call submitted exactly that many tasks.
C19_SubmittedOnce ==
    ret.op = "calculate_pricing_async" =>
        /\ ret.submitted = Len(ret.flat_types)
        /\ Len(ret.futures) = Len(ret.flat_types)
        /\ \A i \in 1..Len(ret.futures) : ret.futures[i].flat_type = ret.flat_types[i]
        /\ \A i, j \in 1..Len(ret.futures) :
              ret.futures[i].id = ret.futures[j].id => i = j

\* C19 (mapping): the returned mapping has the key of a flat type if and only
\* if its task computed a price and result(timeout=5) did not time out on it;
\* the value is then the price times 0.8, rounded; the flat types of the
\* other tasks, and only they, were logged.
C19_KeyIffPriceInTime ==
    ret.op = "calculate_pricing_async" =>
        /\ DOMAIN ret.value \subseteq
              {PricingKey(ret.flat_types[i]) : i \in 1..Len(ret.flat_types)}
        /\ \A i \in 1..Len(ret.futures) :
              LET f == ret.futures[i]
                  key == PricingKey(f.flat_type)
              IN  /\ key \in DOMAIN ret.value
                        <=> TaskPriced(i) /\ f.collected # "timeout"
                  /\ key \in DOMAIN ret.value =>
                        LET d == 5 * ret.value[key] - 2 * f.result.value[1]
                        IN  d >= -2 /\ d <= 2
                  /\ f.flat_type \in ret.warned
                        <=> f.result.raised # "none" \/ f.collected = "timeout"

\* C19 (independence): a task that computes a price in at most the timeout
\* gets its key, whatever the other tasks of the batch do.
C19_OthersNotPrevented ==
    ret.op = "calculate_pricing_async" =>
        \A i \in 1..Len(ret.futures) :
            (/\ TaskPriced(i)
             /\ ret.futures[i].dur # Hang
             /\ ret.futures[i].dur <= RESULT_TIMEOUT)
                => PricingKey(ret.futures[i].flat_type) \in DOMAIN ret.value

\* C19: in calculate_pricing_async each task is submitted exactly once and
\* never again; the mapping has the key of a flat type if and only if its
\* task returned a price within the timeout; a task that times out or raises
\* is logged and left out, and neither removes nor prevents the result of
\* another flat type of the batch.
C19_AsyncPricing ==
    C19_SubmittedOnce /\ C19_KeyIffPriceInTime /\ C19_OthersNotPrevented

\* the estimate of (town, flat type) is infinite: the tier the estimate is
\* taken from has an infinite price at its upper middle position
ZoneEstimateInfinite(rows, town, flat_type) ==
    LET recent == MatchingRecent(rows, town, flat_type)
        all == Matching(rows, town, flat_type)
        g == IF NRows(recent) >= RELIABLE_MINIMUM THEN recent ELSE all
    IN  NRows(g) >= 1 /\ Occupies(g, INF, NRows(g) \div 2 + 1)

\* processing the zone raises: the rounding of an infinite target price, or
\* the median of a floor area column that holds text
ZoneFails(rows, town) ==
    \/ \E flat_type \in {"3 ROOM", "4 ROOM", "5 ROOM"} :
          ZoneEstimateInfinite(rows, town, flat_type)
    \/ \E i \in 1..Len(rows) : rows[i].town = town /\ rows[i].floor_area_sqm = TEXT

\* the candidates the loop of recommend_estates processes
ProcessedCandidates(df) == LoopSlice(analyze_bto_gaps(df).list)

EntriesOf(list, town) == Cardinality({k \in 1..Len(list) : list[k].town = town})

\* C21: when processing a candidate raises, that candidate is skipped and
\* nothing else is: the call returns the ranked list, not the total-failure
\* fallback; the list has no entry of a candidate whose processing raised and
\* exactly one entry of every other processed candidate.
C21_FailedCandidateSkipped ==
    (/\ ret.op = "recommend_estates"
     /\ ret.df # None
     /\ analyze_bto_gaps(ret.df).raised = "none") =>
        /\ ret.branch = "ranked"
        /\ \A k \in 1..Len(ProcessedCandidates(ret.df)) :
              LET town == ProcessedCandidates(ret.df)[k].town
              IN  EntriesOf(ret.value, town)
                     = IF ZoneFails(ret.df[1], town) THEN 0 ELSE 1

\* a ranked list without the one candidate whose processing raised and with
\* the entries of two candidates whose processing did not
C21_Witness ==
    /\ ret.op = "recommend_estates" /\ ret.branch = "ranked"
    /\ Len(ProcessedCandidates(ret.df)) = 3
    /\ Len(ret.value) = 2
    /\ Cardinality({k \in 1..3 :
            ZoneFails(ret.df[1], ProcessedCandidates(ret.df)[k].town)}) = 1

\* the place of a zone among the candidates, in the order they are processed
CandidateIndex(candidates, town) ==
    CHOOSE k \in 1..Len(candidates) : candidates[k].town = town

\* C22: the list returned by recommend_estates is sorted non-increasing by
\* (demand_score, years_since_last_major_launch), and entries equal on both
\* keys are in the order in which their candidates were processed.
C22_RankedSortedStable ==
    ret.op = "recommend_estates" /\ ret.branch = "ranked" /\ Len(ret.value) >= 2 =>
        LET candidates == ProcessedCandidates(ret.df)
            place == [k \in 1..Len(ret.value) |->
                        CandidateIndex(candidates, ret.value[k].town)]
        IN
        \A i \in 1..Len(ret.value) : \A j \in 1..Len(ret.value) :
            i < j =>
                LET a == ret.value[i]
                    b == ret.value[j]
                IN  \/ a.demand_score > b.demand_score
                    \/ /\ a.demand_score = b.demand_score
                       /\ a.years_since_last_major_launch > b.years_since_last_major_launch
                    \/ /\ a.demand_score = b.demand_score
                       /\ a.years_since_last_major_launch = b.years_since_last_major_launch
                       /\ place[i] < place[j]

\* a ranked list with two entries equal on both keys, two entries of equal
\* score and different gaps, and two entries of different scores
C22_Witness ==
    /\ ret.op = "recommend_estates" /\ ret.branch = "ranked"
    /\ \E i, j \in 1..Len(ret.value) :
          /\ i < j
          /\ ret.value[i].demand_score = ret.value[j].demand_score
          /\ ret.value[i].years_since_last_major_launch
                = ret.value[j].years_since_last_major_launch
    /\ \E i, j \in 1..Len(ret.value) :
          /\ ret.value[i].demand_score = ret.value[j].demand_score
          /\ ret.value[i].years_since_last_major_launch
                > ret.value[j].years_since_last_major_launch
    /\ \E i, j \in 1..Len(ret.value) :
          ret.value[i].demand_score > ret.value[j].demand_score

ValidSourceRow(r) ==
    /\ r.month \notin {NaN, TEXT}
    /\ r.month \div 100 \in 1..9999
    /\ r.month % 100 \in 1..12
    /\ r.resale_price # NaN
    /\ r.resale_price > 0
    /\ r.lease_commence_date # NaN

\* a row of a loaded table has what the loader promises
CleanRecord(r) ==
    /\ r.resale_price > 0
    /\ r.transaction_date # NaN
    /\ r.transaction_year = r.transaction_date \div 100
    /\ r.lease_commence_date # NaN

AllClean(df) == df # None => \A i \in 1..Len(df[1]) : CleanRecord(df[1][i])

\* what identifies a row of the extract in a table
RowIdentity(rows) ==
    [i \in 1..Len(rows) |->
        <<rows[i].n, rows[i].month, rows[i].town, rows[i].flat_type, rows[i].resale_price>>]

\* C24: every table returned by load_resale_data, and every cached table,
\* holds only records with a price above zero, a parsed transaction date and
\* a construction vintage that is not null; a table just read is the source
\* rows that satisfy the three conditions, in their order, and no other row.
C24_OnlyCleanRecords ==
    /\ \A s \in Services : AllClean(data_cache[s])
    /\ lru # None => AllClean(lru[1].value)
    /\ ret.op = "load_resale_data" =>
          /\ AllClean(ret.value)
          /\ (ret.read /\ ret.value # None) =>
                RowIdentity(ret.value[1])
                   = RowIdentity(SelectSeq(source.rows, ValidSourceRow))

\* a table just read that is not empty and lacks a row of the source
C24_Witness ==
    /\ ret.op = "load_resale_data"
    /\ ret.read
    /\ ret.value # None
    /\ ret.value[1] # <<>>
    /\ Len(ret.value[1]) < Len(source.rows)
    /\ data_cache[ret.svc] = ret.value

\* the list recommend_estates returns on a table
RankingOf(df) == recommend_estates(df).value

\* the list a /recommend response delivers, None for an error response
DeliveredTowns(response) ==
    IF response.status = 200 THEN Some(response.body[1].recommended_towns) ELSE None

\* C25 (one request): the response is an error exactly when the ranking is
\* the empty list, whatever the generators did, and otherwise delivers the
\* list recommend_estates returns on the table.
C25_DeliversRanking ==
    ret.op = "recommend" =>
        /\ ret.status \in {200, 500}
        /\ ret.status = 500 <=> RankingOf(ret.df) = <<>>
        /\ ret.status = 200 => DeliveredTowns(ret) = Some(RankingOf(ret.df))

\* C25: two /recommend requests on the same table, whatever the narrative
\* generators do in either (answer, fail over to the secondary, fail both),
\* get the same status and the same recommended_towns; the list is the one
\* recommend_estates returns, and no generator failure makes the response an
\* error.
C25_RankingIndependentOfGenerator ==
    /\ []C25_DeliversRanking
    /\ [][(ret.op = "recommend" /\ ret'.op = "recommend" /\ ret'.df = ret.df)
            => /\ ret'.status = ret.status
               /\ DeliveredTowns(ret') = DeliveredTowns(ret)]_vars

\* a response with a ranked list of several zones and the fallback text,
\* after both generators failed
C25_Witness ==
    /\ ret.op = "recommend"
    /\ ret.openai # "content"
    /\ ret.perplexity # "content"
    /\ ret.calls = <<"openai", "perplexity">>
    /\ ret.status = 200
    /\ Len(ret.body[1].recommended_towns) >= 2
    /\ ret.body[1].analysis = generate_fallback_analysis(TRUE,
                                  "Both OpenAI and Perplexity APIs unavailable")

\* the records of a zone that have the given flat type
ZoneTypeCount(rows, town, flat_type) == NRows(Matching(rows, town, flat_type))

\* C26: get_town_characteristics does not raise; it returns the empty summary
\* if and only if the table is None or the zone has no record in it; for a
\* zone with a record the summary's total is the number of the zone's records,
\* the mix has one fraction for each flat type of the zone and for no other,
\* each fraction is the count of the type over the total, and the fractions
\* sum to 1.
C26_EmptyIffNoRecord ==
    ret.op = "get_town_characteristics" =>
        LET absent == ret.df = None \/ ZoneTotal(ret.df[1], ret.town) = 0
            mix == ret.value.flat_type_mix
        IN  /\ ret.raised = "none"
            /\ ret.value.empty <=> absent
            /\ ~absent =>
                  /\ ret.value.total_transactions = ZoneTotal(ret.df[1], ret.town)
                  /\ \A k \in 1..Len(mix) :
                        /\ mix[k].num = ZoneTypeCount(ret.df[1], ret.town, mix[k].flat_type)
                        /\ mix[k].num >= 1
                        /\ mix[k].den = ZoneTotal(ret.df[1], ret.town)
                        /\ \A j \in 1..Len(mix) :
                              mix[j].flat_type = mix[k].flat_type => j = k
                  /\ \A i \in 1..Len(ret.df[1]) :
                        ret.df[1][i].town = ret.town =>
                            \E k \in 1..Len(mix) :
                                mix[k].flat_type = ret.df[1][i].flat_type
                  /\ SumSeq([k \in 1..Len(mix) |-> mix[k].num])
                        = ZoneTotal(ret.df[1], ret.town)

\* C27: when a load_resale_data call on a service has read the source, failed
\* and returned None, the next call on the same service reads the source
\* again and, if the source is valid by then, returns its table.
C27_FailedLoadRetried ==
    [][\A s \in Services :
          (/\ ret.op = "load_resale_data"
           /\ ret.svc = s
           /\ ret.read
           /\ ret.value = None
           /\ GetTable(s))
             => /\ ret'.read
                /\ LoadFromSource(source, now).exc = "none"
                      => ret'.value = LoadFromSource(source, now).df]_vars

\* C20: whatever the interleaving of the callers of load_resale_data on the
\* one service, the source extract is read at most once within a TTL window.
C20_LoadedOncePerWindow == loads <= 1

====
